---------------------------- MODULE Spec2Model ----------------------------
(***************************************************************************)
(* The blog repository layer (server/storage.ts) and the route layer       *)
(* (server/routes.ts) as a state machine.                                  *)
(*                                                                         *)
(* mem is a MemStorage instance, db is the relational store behind a       *)
(* DatabaseStorage instance, and impl says which of the two               *)
(* implementations of IStorage the calls go to: one of them, or both with  *)
(* the same arguments.                                                     *)
(***************************************************************************)
EXTENDS Integers, Sequences, FiniteSets, TLC

VARIABLES impl, mem, db, res, reqs

vars == <<impl, mem, db, res, reqs>>

(***************************************************************************)
(* Bounds of the model.                                                    *)
(***************************************************************************)
MaxPosts == 3       \* post ids handed out per store
MaxTags == 2        \* tag ids handed out per store
MaxPostTags == 2    \* post_tags ids handed out per store
MaxLimit == 2       \* largest limit argument of getPaginatedPosts
MaxSubscribers == 3 \* subscriber ids handed out
MaxRequests == 2    \* POST /api/subscribe requests in flight

Slugs == {"a", "b"}
Names == {"A", "B"}
Emails == {"x@y", "z@y"}

PostIds == 1..MaxPosts
TagIds == 1..MaxTags
Times == {1, 2}
Pages == 1..(MaxPosts + 1)
Limits == 1..MaxLimit

\* What reading a missing key of an object gives.  InsertPost.publishedAt is
\* optional (the column has a default), so a post object can lack the key;
\* new Date(undefined).getTime() is NaN.
undefined == 0

\* o[k] of the source: the value, or undefined when the object has no such key
Get(o, k) == IF k \in DOMAIN o THEN o[k] ELSE undefined

\* { ...a, ...b }
Spread(a, b) == [k \in (DOMAIN a) \cup (DOMAIN b) |->
                    IF k \in DOMAIN b THEN b[k] ELSE a[k]]

(***************************************************************************)
(* Small helpers.                                                          *)
(***************************************************************************)
Min(a, b) == IF a < b THEN a ELSE b

Max(a, b) == IF a > b THEN a ELSE b

RECURSIVE SetToSeq(_)
\* the elements of a set of integers in ascending order
SetToSeq(S) ==
    IF S = {} THEN <<>>
    ELSE LET m == CHOOSE x \in S : \A y \in S : x <= y
         IN <<m>> \o SetToSeq(S \ {m})

\* Array.prototype.filter
Filter(s, Test(_)) == SelectSeq(s, Test)

\* Array.prototype.map
Map(s, F(_)) == [i \in 1..Len(s) |-> F(s[i])]

\* Array.prototype.includes
Includes(s, x) == \E i \in 1..Len(s) : s[i] = x

\* Array.prototype.slice(start, end) for 0 <= start <= end
Slice(s, start, end) ==
    LET lo == Min(start, Len(s))
        hi == Min(end, Len(s))
    IN [i \in 1..(hi - lo) |-> s[lo + i]]

\* number of occurrences of the row with this id in a list of rows
Count(s, id) == Cardinality({i \in 1..Len(s) : s[i].id = id})

\* Array.from(map.values()): a Map iterates in insertion order, which is
\* ascending id order because ids only grow and set() on an existing key
\* keeps its position
Values(map) == LET ids == SetToSeq(DOMAIN map)
               IN [i \in 1..Len(ids) |-> map[ids[i]]]

\* Map.delete
MapDelete(map, id) == [i \in (DOMAIN map) \ {id} |-> map[i]]

\* all orders in which a set of rows (given by their keys) can be listed
Orders(S) == {s \in [1..Cardinality(S) -> S] :
                 \A i, j \in 1..Cardinality(S) : i # j => s[i] # s[j]}

(***************************************************************************)
(* Results of the operations.                                              *)
(***************************************************************************)
Row(r) == [kind |-> "row", row |-> r]

Rows(s) == [kind |-> "rows", rows |-> s]

Page(s, n) == [kind |-> "page", posts |-> s, total |-> n]

Absent == [kind |-> "undefined"]

Bool(b) == [kind |-> "boolean", value |-> b]

\* a rejected promise
Failure == [kind |-> "error"]

(***************************************************************************)
(* Array.prototype.sort with the comparator of getAllPosts and             *)
(* getPostsByTagId.                                                        *)
(***************************************************************************)
\* (a, b) => new Date(b.publishedAt).getTime() - new Date(a.publishedAt).getTime()
\* new Date(undefined).getTime() is NaN, and sort reads a NaN result as 0
byPublishedAtDesc(a, b) ==
    IF Get(a, "publishedAt") = undefined \/ Get(b, "publishedAt") = undefined
    THEN 0
    ELSE b.publishedAt - a.publishedAt

RECURSIVE CountRun(_, _, _)
\* length of the initial run of s, where s[1..k] is a run already
CountRun(s, k, descending) ==
    IF k >= Len(s) THEN k
    ELSE LET order == byPublishedAtDesc(s[k + 1], s[k])
         IN IF (descending /\ order >= 0) \/ (~descending /\ order < 0)
            THEN k
            ELSE CountRun(s, k + 1, descending)

Reverse(s) == [i \in 1..Len(s) |-> s[Len(s) + 1 - i]]

RECURSIVE InsertionPoint(_, _, _, _)
\* binary search of the place of pivot in the sorted prefix s[left+1..right]
InsertionPoint(s, pivot, left, right) ==
    IF left >= right THEN left
    ELSE LET mid == left + ((right - left) \div 2)
         IN IF byPublishedAtDesc(pivot, s[mid + 1]) < 0
            THEN InsertionPoint(s, pivot, left, mid)
            ELSE InsertionPoint(s, pivot, mid + 1, right)

RECURSIVE BinaryInsertionSort(_, _)
\* s[1..start] is sorted; insert s[start+1], s[start+2], ... one by one
BinaryInsertionSort(s, start) ==
    IF start >= Len(s) THEN s
    ELSE LET pivot == s[start + 1]
             left == InsertionPoint(s, pivot, 0, start)
             t == [i \in 1..Len(s) |->
                     IF i <= left THEN s[i]
                     ELSE IF i = left + 1 THEN pivot
                     ELSE IF i <= start + 1 THEN s[i - 1]
                     ELSE s[i]]
         IN BinaryInsertionSort(t, start + 1)

\* the stable sort of the runtime for arrays shorter than 64 elements: the
\* initial run is found (and reversed when strictly descending), the rest is
\* inserted by binary insertion.  With a consistent comparator this is the
\* stable sort; with NaN comparisons the result is what this procedure gives.
Sort(s) ==
    IF Len(s) < 2 THEN s
    ELSE LET descending == byPublishedAtDesc(s[2], s[1]) < 0
             run == CountRun(s, 2, descending)
             t == IF descending
                  THEN Reverse(SubSeq(s, 1, run)) \o SubSeq(s, run + 1, Len(s))
                  ELSE s
         IN BinaryInsertionSort(t, run)

(***************************************************************************)
(* MemStorage.  `this` is the record of the instance's fields; a mutating  *)
(* operation gives the new fields and the value its promise resolves to.   *)
(***************************************************************************)
\* the constructor, before seedData populates the maps
MemStorage == [users |-> <<>>, posts |-> <<>>, tags |-> <<>>, postTags |-> <<>>,
               subscribers |-> <<>>,
               currentUserId |-> 1, currentPostId |-> 1, currentTagId |-> 1,
               currentPostTagId |-> 1, currentSubscriberId |-> 1]

MemStorage_createUser(this, insertUser) ==
    LET id == this.currentUserId
        user == Spread(insertUser, [id |-> id])
    IN [this |-> [this EXCEPT !.currentUserId = id + 1,
                              !.users = (id :> user) @@ this.users],
        result |-> Row(user)]

MemStorage_getAllPosts(this) == Sort(Values(this.posts))

\* a createPost that numbers the post by the size of the map
MemStorage_createPost_reuse(this, insertPost) ==
    LET id == Cardinality(DOMAIN this.posts) + 1
        post == Spread(insertPost, [id |-> id])
    IN [this |-> [this EXCEPT !.currentPostId = this.currentPostId + 1,
                              !.posts = (id :> post) @@ this.posts],
        result |-> Row(post)]

MemStorage_createPost(this, insertPost) ==
    LET id == this.currentPostId
        post == Spread(insertPost, [id |-> id])
    IN [this |-> [this EXCEPT !.currentPostId = id + 1,
                              !.posts = (id :> post) @@ this.posts],
        result |-> Row(post)]

\* an update that stores the updates in place of the post
MemStorage_updatePost_replace(this, id, postUpdates) ==
    IF id \notin DOMAIN this.posts
    THEN [this |-> this, result |-> Absent]
    ELSE LET updatedPost == Spread(postUpdates, [id |-> id])
         IN [this |-> [this EXCEPT !.posts = (id :> updatedPost) @@ this.posts],
             result |-> Row(updatedPost)]

MemStorage_updatePost(this, id, postUpdates) ==
    IF id \notin DOMAIN this.posts
    THEN [this |-> this, result |-> Absent]
    ELSE LET updatedPost == Spread(this.posts[id], postUpdates)
         IN [this |-> [this EXCEPT !.posts = (id :> updatedPost) @@ this.posts],
             result |-> Row(updatedPost)]

MemStorage_deletePost(this, id) ==
    [this |-> [this EXCEPT !.posts = MapDelete(this.posts, id)],
     result |-> Bool(id \in DOMAIN this.posts)]

MemStorage_getFeaturedPost(this) ==
    LET allPosts == MemStorage_getAllPosts(this)
    IN IF Len(allPosts) > 0 THEN Row(allPosts[1]) ELSE Absent

\* a slice that runs one element too far
MemStorage_getPaginatedPosts_offByOne(this, page, limit) ==
    LET allPosts == MemStorage_getAllPosts(this)
        startIndex == (page - 1) * limit
        endIndex == page * limit + 1
    IN Page(Slice(allPosts, startIndex, endIndex), Len(allPosts))

MemStorage_getPaginatedPosts(this, page, limit) ==
    LET allPosts == MemStorage_getAllPosts(this)
        startIndex == (page - 1) * limit
        endIndex == page * limit
    IN Page(Slice(allPosts, startIndex, endIndex), Len(allPosts))

\* find() gives the first tag in map order with that slug
MemStorage_getTagBySlug(this, slug) ==
    LET found == Filter(Values(this.tags), LAMBDA tag : tag.slug = slug)
    IN IF Len(found) > 0 THEN Row(found[1]) ELSE Absent

MemStorage_createTag(this, insertTag) ==
    LET id == this.currentTagId
        tag == Spread(insertTag, [id |-> id])
    IN [this |-> [this EXCEPT !.currentTagId = id + 1,
                              !.tags = (id :> tag) @@ this.tags],
        result |-> Row(tag)]

MemStorage_getPostsByTagId(this, tagId) ==
    LET postTagEntries == Filter(Values(this.postTags), LAMBDA pt : pt.tagId = tagId)
        postIds == Map(postTagEntries, LAMBDA pt : pt.postId)
    IN Sort(Filter(Values(this.posts), LAMBDA post : Includes(postIds, post.id)))

MemStorage_getPostsByTagSlug(this, tagSlug) ==
    LET tag == MemStorage_getTagBySlug(this, tagSlug)
    IN IF tag = Absent THEN <<>> ELSE MemStorage_getPostsByTagId(this, tag.row.id)

MemStorage_getTagsByPostId(this, postId) ==
    LET postTagEntries == Filter(Values(this.postTags), LAMBDA pt : pt.postId = postId)
        tagIds == Map(postTagEntries, LAMBDA pt : pt.tagId)
    IN Filter(Values(this.tags), LAMBDA tag : Includes(tagIds, tag.id))

MemStorage_addTagToPost(this, insertPostTag) ==
    LET id == this.currentPostTagId
        postTag == Spread(insertPostTag, [id |-> id])
    IN [this |-> [this EXCEPT !.currentPostTagId = id + 1,
                              !.postTags = (id :> postTag) @@ this.postTags],
        result |-> Row(postTag)]

\* a removal that deletes every row of the post
MemStorage_removeTagFromPost_everyTag(this, postId, tagId) ==
    LET found == Filter(Values(this.postTags),
                        LAMBDA pt : pt.postId = postId /\ pt.tagId = tagId)
    IN IF Len(found) = 0
       THEN [this |-> this, result |-> Bool(FALSE)]
       ELSE [this |-> [this EXCEPT !.postTags =
                          [i \in {j \in DOMAIN this.postTags :
                                     this.postTags[j].postId # postId} |->
                              this.postTags[i]]],
             result |-> Bool(TRUE)]

MemStorage_removeTagFromPost(this, postId, tagId) ==
    LET found == Filter(Values(this.postTags),
                        LAMBDA pt : pt.postId = postId /\ pt.tagId = tagId)
    IN IF Len(found) = 0
       THEN [this |-> this, result |-> Bool(FALSE)]
       ELSE [this |-> [this EXCEPT !.postTags = MapDelete(this.postTags, found[1].id)],
             result |-> Bool(TRUE)]

\* createdAt: new Date()
MemStorage_createSubscriber(this, insertSubscriber, clock) ==
    LET id == this.currentSubscriberId
        subscriber == Spread(insertSubscriber, [id |-> id, createdAt |-> clock])
    IN [this |-> [this EXCEPT !.currentSubscriberId = id + 1,
                              !.subscribers = (id :> subscriber) @@ this.subscribers],
        result |-> Row(subscriber)]

(***************************************************************************)
(* The relational store behind DatabaseStorage.  A table is a function     *)
(* from the ids of its rows to the rows; each serial column has a sequence *)
(* that an INSERT advances whether or not the row is accepted.  A SELECT   *)
(* gives the set of lists it may return: without ORDER BY the rows come in *)
(* any order, with ORDER BY rows of equal key come in any order.           *)
(***************************************************************************)
\* the empty database, before seedData runs
Database == [users |-> <<>>, posts |-> <<>>, tags |-> <<>>, postTags |-> <<>>,
             subscribers |-> <<>>,
             usersSeq |-> 1, postsSeq |-> 1, tagsSeq |-> 1, postTagsSeq |-> 1,
             subscribersSeq |-> 1]

\* the rows keyed by keys, in every order
Select(keys, RowOf(_)) == {Map(o, RowOf) : o \in Orders(keys)}

\* .orderBy(desc(posts.publishedAt))
OrderByDesc(lists) ==
    {s \in lists : \A i \in 1..(Len(s) - 1) : s[i].publishedAt >= s[i + 1].publishedAt}

\* .limit(limit).offset(offset)
LimitOffset(s, limit, offset) == Slice(s, offset, offset + limit)

\* const [row] = await ...; return row || undefined
First(lists) == {IF Len(s) > 0 THEN Row(s[1]) ELSE Absent : s \in lists}

DatabaseStorage_getAllPosts(this) ==
    OrderByDesc(Select(DOMAIN this.posts, LAMBDA id : this.posts[id]))

\* posts.slug is unique; published_at is NOT NULL DEFAULT now()
DatabaseStorage_createPost(this, insertPost, clock) ==
    LET id == this.postsSeq
        post == [id |-> id, slug |-> insertPost.slug,
                 publishedAt |-> IF "publishedAt" \in DOMAIN insertPost
                                 THEN insertPost.publishedAt ELSE clock]
        next == [this EXCEPT !.postsSeq = id + 1]
    IN IF \E i \in DOMAIN this.posts : this.posts[i].slug = post.slug
       THEN [this |-> next, result |-> Failure]
       ELSE [this |-> [next EXCEPT !.posts = (id :> post) @@ this.posts],
             result |-> Row(post)]

DatabaseStorage_updatePost(this, id, postUpdates) ==
    IF id \notin DOMAIN this.posts
    THEN [this |-> this, result |-> Absent]
    ELSE LET updatedPost == Spread(this.posts[id], postUpdates)
         IN IF \E i \in DOMAIN this.posts : i # id /\ this.posts[i].slug = updatedPost.slug
            THEN [this |-> this, result |-> Failure]
            ELSE [this |-> [this EXCEPT !.posts = (id :> updatedPost) @@ this.posts],
                  result |-> Row(updatedPost)]

\* what a DELETE without .returning() resolves to
QueryResult(n) == [kind |-> "result", rowCount |-> n]

\* await db.delete(postTags).where(eq(postTags.postId, id))
DatabaseStorage_deletePost_postTags(this, id) ==
    LET deleted == {i \in DOMAIN this.postTags : this.postTags[i].postId = id}
    IN [this |-> [this EXCEPT !.postTags =
                     [i \in (DOMAIN this.postTags) \ deleted |-> this.postTags[i]]],
        result |-> QueryResult(Cardinality(deleted))]

\* a DELETE on a posts table that no foreign key references
DatabaseStorage_deletePost_posts_noForeignKey(this, id) ==
    [this |-> [this EXCEPT !.posts = MapDelete(this.posts, id)],
     result |-> Bool(id \in DOMAIN this.posts)]

\* await db.delete(posts).where(eq(posts.id, id)).returning(): the statement
\* is rejected while a post_tags row references the post
DatabaseStorage_deletePost_posts(this, id) ==
    IF \E i \in DOMAIN this.postTags : this.postTags[i].postId = id
    THEN [this |-> this, result |-> Failure]
    ELSE [this |-> [this EXCEPT !.posts = MapDelete(this.posts, id)],
          result |-> Bool(id \in DOMAIN this.posts)]

\* the two DELETE statements, one after the other with nothing in between
DatabaseStorage_deletePost(this, id) ==
    DatabaseStorage_deletePost_posts(DatabaseStorage_deletePost_postTags(this, id).this, id)

DatabaseStorage_getPostBySlug(this, slug) ==
    First(Select({i \in DOMAIN this.posts : this.posts[i].slug = slug},
                 LAMBDA i : this.posts[i]))

\* .orderBy(desc(posts.publishedAt)).limit(1)
DatabaseStorage_getFeaturedPost(this) ==
    First({LimitOffset(s, 1, 0) : s \in DatabaseStorage_getAllPosts(this)})

\* an offset that counts pages from 0
DatabaseStorage_getPaginatedPosts_pageOffset(this, page, limit) ==
    LET offset == page * limit
        total == Cardinality(DOMAIN this.posts)
    IN {Page(LimitOffset(s, limit, offset), total) :
           s \in DatabaseStorage_getAllPosts(this)}

\* the database rejects a negative LIMIT and a negative OFFSET
DatabaseStorage_getPaginatedPosts(this, page, limit) ==
    LET offset == (page - 1) * limit
        total == Cardinality(DOMAIN this.posts)
    IN IF limit < 0 \/ offset < 0
       THEN {Failure}
       ELSE {Page(LimitOffset(s, limit, offset), total) :
                s \in DatabaseStorage_getAllPosts(this)}

DatabaseStorage_getTagBySlug(this, slug) ==
    First(Select({i \in DOMAIN this.tags : this.tags[i].slug = slug},
                 LAMBDA i : this.tags[i]))

\* tags.name and tags.slug are unique
DatabaseStorage_createTag(this, insertTag) ==
    LET id == this.tagsSeq
        tag == [id |-> id, name |-> insertTag.name, slug |-> insertTag.slug]
        next == [this EXCEPT !.tagsSeq = id + 1]
    IN IF \E i \in DOMAIN this.tags :
             this.tags[i].name = tag.name \/ this.tags[i].slug = tag.slug
       THEN [this |-> next, result |-> Failure]
       ELSE [this |-> [next EXCEPT !.tags = (id :> tag) @@ this.tags],
             result |-> Row(tag)]

\* posts INNER JOIN post_tags: one result row per post_tags row
DatabaseStorage_getPostsByTagId(this, tagId) ==
    OrderByDesc(Select({i \in DOMAIN this.postTags : this.postTags[i].tagId = tagId},
                       LAMBDA i : this.posts[this.postTags[i].postId]))

\* a lookup that lists every post when no tag has the slug
DatabaseStorage_getPostsByTagSlug_allPosts(this, tagSlug) ==
    UNION {IF tag = Absent THEN DatabaseStorage_getAllPosts(this)
           ELSE DatabaseStorage_getPostsByTagId(this, tag.row.id) :
              tag \in DatabaseStorage_getTagBySlug(this, tagSlug)}

DatabaseStorage_getPostsByTagSlug(this, tagSlug) ==
    UNION {IF tag = Absent THEN {<<>>}
           ELSE DatabaseStorage_getPostsByTagId(this, tag.row.id) :
              tag \in DatabaseStorage_getTagBySlug(this, tagSlug)}

\* tags INNER JOIN post_tags: one result row per post_tags row
DatabaseStorage_getTagsByPostId(this, postId) ==
    Select({i \in DOMAIN this.postTags : this.postTags[i].postId = postId},
           LAMBDA i : this.tags[this.postTags[i].tagId])

\* an INSERT into a post_tags table without its foreign keys
DatabaseStorage_addTagToPost_noForeignKey(this, insertPostTag) ==
    LET id == this.postTagsSeq
        postTag == [id |-> id, postId |-> insertPostTag.postId,
                    tagId |-> insertPostTag.tagId]
    IN [this |-> [this EXCEPT !.postTagsSeq = id + 1,
                              !.postTags = (id :> postTag) @@ this.postTags],
        result |-> Row(postTag)]

\* post_tags.post_id references posts.id, post_tags.tag_id references tags.id
DatabaseStorage_addTagToPost(this, insertPostTag) ==
    LET id == this.postTagsSeq
        postTag == [id |-> id, postId |-> insertPostTag.postId,
                    tagId |-> insertPostTag.tagId]
        next == [this EXCEPT !.postTagsSeq = id + 1]
    IN IF postTag.postId \in DOMAIN this.posts /\ postTag.tagId \in DOMAIN this.tags
       THEN [this |-> [next EXCEPT !.postTags = (id :> postTag) @@ this.postTags],
             result |-> Row(postTag)]
       ELSE [this |-> next, result |-> Failure]

DatabaseStorage_removeTagFromPost(this, postId, tagId) ==
    LET deleted == {i \in DOMAIN this.postTags :
                       this.postTags[i].postId = postId /\ this.postTags[i].tagId = tagId}
    IN [this |-> [this EXCEPT !.postTags =
                     [i \in (DOMAIN this.postTags) \ deleted |-> this.postTags[i]]],
        result |-> Bool(Cardinality(deleted) > 0)]

\* an INSERT into a table whose email column lost its unique constraint
DatabaseStorage_createSubscriber_notUnique(this, insertSubscriber, clock) ==
    LET id == this.subscribersSeq
        subscriber == [id |-> id, email |-> insertSubscriber.email, createdAt |-> clock]
    IN [this |-> [this EXCEPT !.subscribersSeq = id + 1,
                              !.subscribers = (id :> subscriber) @@ this.subscribers],
        result |-> Row(subscriber)]

\* subscribers.email is unique; created_at is NOT NULL DEFAULT now()
DatabaseStorage_createSubscriber(this, insertSubscriber, clock) ==
    LET id == this.subscribersSeq
        subscriber == [id |-> id, email |-> insertSubscriber.email, createdAt |-> clock]
        next == [this EXCEPT !.subscribersSeq = id + 1]
    IN IF \E i \in DOMAIN this.subscribers : this.subscribers[i].email = subscriber.email
       THEN [this |-> next, result |-> Failure]
       ELSE [this |-> [next EXCEPT !.subscribers = (id :> subscriber) @@ this.subscribers],
             result |-> Row(subscriber)]

DatabaseStorage_getSubscriberByEmail(this, email) ==
    First(Select({i \in DOMAIN this.subscribers : this.subscribers[i].email = email},
                 LAMBDA i : this.subscribers[i]))

(***************************************************************************)
(* DatabaseStorage.seedData.  The sample data is cut down to two tags and  *)
(* two posts; every statement is an INSERT of its own, outside any         *)
(* transaction, so a statement that is rejected leaves the rows of the     *)
(* statements before it in place.                                          *)
(***************************************************************************)
\* users.username is unique
DatabaseStorage_createUser(this, insertUser) ==
    LET id == this.usersSeq
        user == [id |-> id, username |-> insertUser.username]
        next == [this EXCEPT !.usersSeq = id + 1]
    IN IF \E i \in DOMAIN this.users : this.users[i].username = user.username
       THEN [this |-> next, result |-> Failure]
       ELSE [this |-> [next EXCEPT !.users = (id :> user) @@ this.users],
             result |-> Row(user)]

\* tagNames, the first two
tagNames == <<"A", "B">>

\* name.toLowerCase().replace(/\s+/g, '-').replace(/[^\w\-]+/g, '')
Slugify(name) == IF name = "A" THEN "a" ELSE IF name = "B" THEN "b" ELSE "d"

\* samplePosts, the first two, newest first
samplePosts == <<[slug |-> "a", publishedAt |-> 2], [slug |-> "b", publishedAt |-> 1]>>

RECURSIVE seedData_tags(_, _, _)
\* for (const name of tagNames) { insert the tag; createdTags.push(tag) }
seedData_tags(this, names, createdTags) ==
    IF Len(names) = 0
    THEN [this |-> this, result |-> Absent, createdTags |-> createdTags]
    ELSE LET insertTag == [name |-> Head(names), slug |-> Slugify(Head(names))]
             d == DatabaseStorage_createTag(this, insertTag)
         IN IF d.result = Failure
            THEN [this |-> d.this, result |-> Failure, createdTags |-> createdTags]
            ELSE seedData_tags(d.this, Tail(names), Append(createdTags, d.result.row))

\* createdTags.sort(() => 0.5 - Math.random())
\*            .slice(0, Math.floor(Math.random() * 5) + 2)
seedData_selectedTags(createdTags) ==
    {Slice([i \in 1..Len(o) |-> createdTags[o[i]]], 0, n) :
        o \in Orders(DOMAIN createdTags), n \in 2..6}

RECURSIVE seedData_postTags(_, _, _)
\* for (const tag of selectedTags) { insert the post_tags row }
seedData_postTags(this, postId, selectedTags) ==
    IF Len(selectedTags) = 0 THEN this
    ELSE seedData_postTags(
            DatabaseStorage_addTagToPost(this, [postId |-> postId,
                                                tagId |-> Head(selectedTags).id]).this,
            postId, Tail(selectedTags))

RECURSIVE seedData_posts(_, _, _)
\* for (const postData of samplePosts) { insert the post; tag it }: the
\* outcomes the random selections allow
seedData_posts(this, postsData, createdTags) ==
    IF Len(postsData) = 0
    THEN {[this |-> this, result |-> Absent]}
    ELSE LET d == DatabaseStorage_createPost(this, Head(postsData),
                                             Head(postsData).publishedAt)
         IN IF d.result = Failure
            THEN {[this |-> d.this, result |-> Failure]}
            ELSE UNION {seedData_posts(
                           seedData_postTags(d.this, d.result.row.id, selectedTags),
                           Tail(postsData), createdTags) :
                              selectedTags \in seedData_selectedTags(createdTags)}

Seeded(outcome, log) == [this |-> outcome.this, result |-> outcome.result, log |-> log]

\* a seedData without the check for existing users
DatabaseStorage_seedData_noCheck(this) ==
    LET admin == DatabaseStorage_createUser(this, [username |-> "admin"])
        tagged == seedData_tags(admin.this, tagNames, <<>>)
    IN IF admin.result = Failure THEN {Seeded(admin, "Seeding database...")}
       ELSE IF tagged.result = Failure THEN {Seeded(tagged, "Seeding database...")}
       ELSE {Seeded(d, IF d.result = Failure THEN "Seeding database..."
                       ELSE "Database seeded successfully") :
                d \in seedData_posts(tagged.this, samplePosts, tagged.createdTags)}

\* the outcomes of seedData: the database it leaves, what its promise settles
\* to, and the last line it logged
DatabaseStorage_seedData(this) ==
    IF Cardinality(DOMAIN this.users) > 0
    THEN {[this |-> this, result |-> Absent,
           log |-> "Database already seeded, skipping..."]}
    ELSE LET admin == DatabaseStorage_createUser(this, [username |-> "admin"])
             tagged == seedData_tags(admin.this, tagNames, <<>>)
         IN IF admin.result = Failure THEN {Seeded(admin, "Seeding database...")}
            ELSE IF tagged.result = Failure THEN {Seeded(tagged, "Seeding database...")}
            ELSE {Seeded(d, IF d.result = Failure THEN "Seeding database..."
                            ELSE "Database seeded successfully") :
                     d \in seedData_posts(tagged.this, samplePosts, tagged.createdTags)}

(***************************************************************************)
(* MemStorage.seedData.  The constructor calls it without awaiting it: it  *)
(* runs up to its first await inside the constructor, and each of its      *)
(* later awaits gives way to whatever else is ready to run.  A frame is    *)
(* the await seedData is suspended at, with its local variables.  The      *)
(* sample data is cut down to two tags and two posts.                      *)
(***************************************************************************)
\* posts, the first two; the title stands for the tag names its match gives,
\* of which "D" is the name of no tag
MemStorage_samplePosts ==
    <<[slug |-> "a", title |-> <<"A", "B">>, publishedAt |-> 2],
      [slug |-> "b", title |-> <<"D", "B">>, publishedAt |-> 1]>>

\* for (const postData of posts): createPost for the p-th post is called,
\* or the loop is over and seedData returns
MemStorage_seedData_createPost(this, p) ==
    IF p > Len(MemStorage_samplePosts)
    THEN [this |-> this, frame |-> [pc |-> "returned"]]
    ELSE LET c == MemStorage_createPost(this, MemStorage_samplePosts[p])
         IN [this |-> c.this,
             frame |-> [pc |-> "createPost", p |-> p, post |-> c.result.row]]

\* for (const name of tagNames): createTag for the i-th name is called, or
\* the loop is over and the posts loop begins
MemStorage_seedData_createTag(this, i) ==
    IF i > Len(tagNames)
    THEN MemStorage_seedData_createPost(this, 1)
    ELSE [this |-> MemStorage_createTag(this, [name |-> tagNames[i],
                                                slug |-> Slugify(tagNames[i])]).this,
          frame |-> [pc |-> "createTag", i |-> i]]

\* for (const tagName of uniqueTagNames): getTagBySlug for the t-th name is
\* called, or the loop is over and the next post begins
MemStorage_seedData_getTagBySlug(this, p, post, t) ==
    IF t > Len(MemStorage_samplePosts[p].title)
    THEN MemStorage_seedData_createPost(this, p + 1)
    ELSE [this |-> this,
          frame |-> [pc |-> "getTagBySlug", p |-> p, post |-> post, t |-> t,
                     tag |-> MemStorage_getTagBySlug(
                                this, Slugify(MemStorage_samplePosts[p].title[t]))]]

\* seedData runs from the await of its frame to its next await
MemStorage_seedData(this, frame) ==
    CASE frame.pc = "createUser" -> MemStorage_seedData_createTag(this, 1)
      [] frame.pc = "createTag" -> MemStorage_seedData_createTag(this, frame.i + 1)
      [] frame.pc = "createPost" ->
            MemStorage_seedData_getTagBySlug(this, frame.p, frame.post, 1)
      [] frame.pc = "getTagBySlug" ->
            IF frame.tag = Absent
            THEN MemStorage_seedData_getTagBySlug(this, frame.p, frame.post, frame.t + 1)
            ELSE [this |-> MemStorage_addTagToPost(
                              this, [postId |-> frame.post.id,
                                     tagId |-> frame.tag.row.id]).this,
                  frame |-> [pc |-> "addTagToPost", p |-> frame.p, post |-> frame.post,
                             t |-> frame.t]]
      [] frame.pc = "addTagToPost" ->
            MemStorage_seedData_getTagBySlug(this, frame.p, frame.post, frame.t + 1)

\* new MemStorage(): the fields are set and seedData runs up to its first
\* await, that of createUser
MemStorage_constructor ==
    [this |-> MemStorage_createUser(MemStorage, [username |-> "admin"]).this,
     frame |-> [pc |-> "createUser"]]

(***************************************************************************)
(* The arguments the operations are called with.                           *)
(***************************************************************************)
InsertPosts == {[slug |-> sl] : sl \in Slugs}
               \cup {[slug |-> sl, publishedAt |-> t] : sl \in Slugs, t \in Times}

\* Partial<InsertPost> with at least one key
PostUpdates == InsertPosts \cup {[publishedAt |-> t] : t \in Times}

InsertTags == [name : Names, slug : Slugs]

InsertPostTags == [postId : PostIds, tagId : TagIds]

(***************************************************************************)
(* The IStorage operations.  Each call goes to the implementation(s) impl  *)
(* names; res records the call and what each promise settled to.           *)
(***************************************************************************)
CallsMem == impl \in {"MemStorage", "both"}

CallsDb == impl \in {"DatabaseStorage", "both"}

NotCalled == [kind |-> "none"]

\* a mutating call on mem, or none
OnMem(call) == IF CallsMem THEN call ELSE [this |-> mem, result |-> NotCalled]

\* a mutating call on db, or none
OnDb(call) == IF CallsDb THEN call ELSE [this |-> db, result |-> NotCalled]

\* a query on mem, or none
AskMem(answer) == IF CallsMem THEN answer ELSE NotCalled

\* the answers a query on db may give, or none
AskDb(answers) == IF CallsDb THEN answers ELSE {NotCalled}

Call(op, args, m, d) == [op |-> op, args |-> args, mem |-> m, db |-> d]

Idle == [r \in 1..MaxRequests |-> [pc |-> "idle"]]

Init ==
    /\ impl \in {"MemStorage", "DatabaseStorage"}
    /\ mem = MemStorage
    /\ db = Database
    /\ res = [op |-> "none"]
    /\ reqs = Idle

createPost(insertPost, clock) ==
    /\ mem.currentPostId <= MaxPosts
    /\ db.postsSeq <= MaxPosts
    /\ LET m == OnMem(MemStorage_createPost(mem, insertPost))
           d == OnDb(DatabaseStorage_createPost(db, insertPost, clock))
       IN /\ mem' = m.this
          /\ db' = d.this
          /\ res' = Spread(Call("createPost", insertPost, m.result, d.result),
                           [clock |-> clock])
    /\ UNCHANGED <<impl, reqs>>

updatePost(id, postUpdates) ==
    /\ LET m == OnMem(MemStorage_updatePost(mem, id, postUpdates))
           d == OnDb(DatabaseStorage_updatePost(db, id, postUpdates))
       IN /\ mem' = m.this
          /\ db' = d.this
          /\ res' = Call("updatePost", [id |-> id, postUpdates |-> postUpdates],
                         m.result, d.result)
    /\ UNCHANGED <<impl, reqs>>

deletePost(id) ==
    /\ LET m == OnMem(MemStorage_deletePost(mem, id))
           d == OnDb(DatabaseStorage_deletePost(db, id))
       IN /\ mem' = m.this
          /\ db' = d.this
          /\ res' = Call("deletePost", [id |-> id], m.result, d.result)
    /\ UNCHANGED <<impl, reqs>>

createTag(insertTag) ==
    /\ mem.currentTagId <= MaxTags
    /\ db.tagsSeq <= MaxTags
    /\ LET m == OnMem(MemStorage_createTag(mem, insertTag))
           d == OnDb(DatabaseStorage_createTag(db, insertTag))
       IN /\ mem' = m.this
          /\ db' = d.this
          /\ res' = Call("createTag", insertTag, m.result, d.result)
    /\ UNCHANGED <<impl, reqs>>

addTagToPost(insertPostTag) ==
    /\ mem.currentPostTagId <= MaxPostTags
    /\ db.postTagsSeq <= MaxPostTags
    /\ LET m == OnMem(MemStorage_addTagToPost(mem, insertPostTag))
           d == OnDb(DatabaseStorage_addTagToPost(db, insertPostTag))
       IN /\ mem' = m.this
          /\ db' = d.this
          /\ res' = Call("addTagToPost", insertPostTag, m.result, d.result)
    /\ UNCHANGED <<impl, reqs>>

removeTagFromPost(postId, tagId) ==
    /\ LET m == OnMem(MemStorage_removeTagFromPost(mem, postId, tagId))
           d == OnDb(DatabaseStorage_removeTagFromPost(db, postId, tagId))
       IN /\ mem' = m.this
          /\ db' = d.this
          /\ res' = Call("removeTagFromPost", [postId |-> postId, tagId |-> tagId],
                         m.result, d.result)
    /\ UNCHANGED <<impl, reqs>>

createSubscriber(insertSubscriber, clock) ==
    /\ mem.currentSubscriberId <= MaxSubscribers
    /\ db.subscribersSeq <= MaxSubscribers
    /\ LET m == OnMem(MemStorage_createSubscriber(mem, insertSubscriber, clock))
           d == OnDb(DatabaseStorage_createSubscriber(db, insertSubscriber, clock))
       IN /\ mem' = m.this
          /\ db' = d.this
          /\ res' = Spread(Call("createSubscriber", insertSubscriber, m.result, d.result),
                           [clock |-> clock])
    /\ UNCHANGED <<impl, reqs>>

getAllPosts ==
    /\ \E d \in AskDb({Rows(s) : s \in DatabaseStorage_getAllPosts(db)}) :
          res' = Call("getAllPosts", <<>>,
                      AskMem(Rows(MemStorage_getAllPosts(mem))), d)
    /\ UNCHANGED <<impl, mem, db, reqs>>

getPaginatedPosts(page, limit) ==
    /\ \E d \in AskDb(DatabaseStorage_getPaginatedPosts(db, page, limit)) :
          res' = Call("getPaginatedPosts", [page |-> page, limit |-> limit],
                      AskMem(MemStorage_getPaginatedPosts(mem, page, limit)), d)
    /\ UNCHANGED <<impl, mem, db, reqs>>

getFeaturedPost ==
    /\ \E d \in AskDb(DatabaseStorage_getFeaturedPost(db)) :
          res' = Call("getFeaturedPost", <<>>,
                      AskMem(MemStorage_getFeaturedPost(mem)), d)
    /\ UNCHANGED <<impl, mem, db, reqs>>

getPostsByTagId(tagId) ==
    /\ \E d \in AskDb({Rows(s) : s \in DatabaseStorage_getPostsByTagId(db, tagId)}) :
          res' = Call("getPostsByTagId", [tagId |-> tagId],
                      AskMem(Rows(MemStorage_getPostsByTagId(mem, tagId))), d)
    /\ UNCHANGED <<impl, mem, db, reqs>>

getPostsByTagSlug(tagSlug) ==
    /\ \E d \in AskDb({Rows(s) : s \in DatabaseStorage_getPostsByTagSlug(db, tagSlug)}) :
          res' = Call("getPostsByTagSlug", [tagSlug |-> tagSlug],
                      AskMem(Rows(MemStorage_getPostsByTagSlug(mem, tagSlug))), d)
    /\ UNCHANGED <<impl, mem, db, reqs>>

getTagsByPostId(postId) ==
    /\ \E d \in AskDb({Rows(s) : s \in DatabaseStorage_getTagsByPostId(db, postId)}) :
          res' = Call("getTagsByPostId", [postId |-> postId],
                      AskMem(Rows(MemStorage_getTagsByPostId(mem, postId))), d)
    /\ UNCHANGED <<impl, mem, db, reqs>>

(***************************************************************************)
(* GET /api/posts, on the DatabaseStorage instance routes.ts imports.      *)
(***************************************************************************)
DefaultPage == 1

DefaultLimit == 6

\* a string is the sequence of its characters
Digits == <<"0", "1", "2", "3", "4", "5", "6", "7", "8", "9">>

IsDigit(c) == \E d \in 1..10 : Digits[d] = c

DigitValue(c) == (CHOOSE d \in 1..10 : Digits[d] = c) - 1

\* the decimal numeral of n, for 0 <= n <= 9
Numeral(n) == <<Digits[n + 1]>>

\* a number is <<n>>, and NaN is
NaN == <<>>

RECURSIVE TrimStart(_)
\* the string without its leading white space
TrimStart(string) ==
    IF Len(string) > 0 /\ Head(string) = " " THEN TrimStart(Tail(string)) ELSE string

RECURSIVE ParseDigits(_, _, _)
\* the value of the longest prefix of digits, NaN when there is none
ParseDigits(string, value, any) ==
    IF Len(string) = 0 \/ ~IsDigit(Head(string))
    THEN IF any THEN <<value>> ELSE NaN
    ELSE ParseDigits(Tail(string), 10 * value + DigitValue(Head(string)), TRUE)

\* parseInt(string): leading white space is skipped, a sign is read, then
\* the digits up to the first character that is not one
parseInt(string) ==
    LET trimmed == TrimStart(string)
        signed == Len(trimmed) > 0 /\ trimmed[1] \in {"-", "+"}
        sign == IF signed /\ trimmed[1] = "-" THEN -1 ELSE 1
        n == ParseDigits(IF signed THEN Tail(trimmed) ELSE trimmed, 0, FALSE)
    IN IF n = NaN THEN NaN ELSE <<sign * n[1]>>

\* req.query with page and limit in decimal: both are optional
Queries == {<<>>}
           \cup {[page |-> Numeral(p)] : p \in 0..(MaxPosts + 1)}
           \cup {[limit |-> Numeral(l)] : l \in 0..MaxLimit}
           \cup {[page |-> Numeral(p), limit |-> Numeral(l)] :
                    p \in 0..(MaxPosts + 1), l \in 0..MaxLimit}

\* parseInt(req.query[key]) || dflt: a missing key parses to NaN, and NaN
\* and 0 are falsy
ParseIntOr(query, key, dflt) ==
    LET n == IF key \in DOMAIN query THEN parseInt(query[key]) ELSE NaN
    IN IF n = NaN \/ n = <<0>> THEN dflt ELSE n[1]

\* Math.ceil(n / d) for n >= 0, d > 0
Ceil(n, d) == IF n % d = 0 THEN n \div d ELSE (n \div d) + 1

RECURSIVE TagsPromises(_, _)
\* posts.map(async post => ({ ...post, tags: await
\* storage.getTagsByPostId(post.id) })): the values the promises, one per
\* post and in the order of posts, may resolve to
TagsPromises(this, posts) ==
    IF Len(posts) = 0 THEN {<<>>}
    ELSE {<<Spread(posts[1], [tags |-> tags])>> \o rest :
             tags \in DatabaseStorage_getTagsByPostId(this, posts[1].id),
             rest \in TagsPromises(this, Tail(posts))}

\* an array that collects the values as the promises resolve
PromiseAll_completionOrder(promises, order, values) ==
    [i \in 1..Len(promises) |-> promises[order[i]]]

RECURSIVE PromiseAll(_, _, _)
\* Promise.all: the promises resolve in the order `order`, and the value of
\* the i-th promise is stored at index i of the values array
PromiseAll(promises, order, values) ==
    IF Len(order) = 0 THEN values
    ELSE PromiseAll(promises, Tail(order),
                    [values EXCEPT ![Head(order)] = promises[Head(order)]])

\* await Promise.all(posts.map(...)): the lists this may give, the promises
\* resolving in any order
WithTags(this, posts) ==
    {PromiseAll(promises, order, [i \in 1..Len(posts) |-> undefined]) :
        promises \in TagsPromises(this, posts), order \in Orders(1..Len(posts))}

\* res.status(status).json(body)
Send(status, body) == [status |-> status, body |-> body]

\* res.getPaginatedPosts is the call the handler made; a rejected call is
\* answered from the catch block
GET_api_posts(query) ==
    /\ impl = "DatabaseStorage"
    /\ LET page == ParseIntOr(query, "page", DefaultPage)
           limit == ParseIntOr(query, "limit", DefaultLimit)
           call == [op |-> "GET /api/posts", args |-> query,
                    getPaginatedPosts |-> [page |-> page, limit |-> limit]]
       IN \E result \in DatabaseStorage_getPaginatedPosts(db, page, limit) :
             IF result = Failure
             THEN res' = Spread(call, Send(500, [message |-> "Error fetching posts"]))
             ELSE \E postsWithTags \in WithTags(db, result.posts) :
                     res' = Spread(call, Send(200,
                               [posts |-> postsWithTags,
                                pagination |-> [total |-> result.total,
                                                page |-> page,
                                                limit |-> limit,
                                                totalPages |-> Ceil(result.total, limit)]]))
    /\ UNCHANGED <<impl, mem, db, reqs>>

(***************************************************************************)
(* The other routes, on the DatabaseStorage instance routes.ts imports.    *)
(* A GET handler gives the responses it may send; a POST handler gives the *)
(* database it leaves and the response it sends.                           *)
(***************************************************************************)
GET_api_posts_featured(this) ==
    UNION {IF featuredPost = Absent
           THEN {Send(404, [message |-> "No featured post found"])}
           ELSE {Send(200, Spread(featuredPost.row, [tags |-> tags])) :
                    tags \in DatabaseStorage_getTagsByPostId(this, featuredPost.row.id)} :
              featuredPost \in DatabaseStorage_getFeaturedPost(this)}

GET_api_posts_slug(this, slug) ==
    UNION {IF post = Absent
           THEN {Send(404, [message |-> "Post not found"])}
           ELSE {Send(200, Spread(post.row, [tags |-> tags])) :
                    tags \in DatabaseStorage_getTagsByPostId(this, post.row.id)} :
              post \in DatabaseStorage_getPostBySlug(this, slug)}

GET_api_tags_slug(this, slug) ==
    {IF tag = Absent
     THEN Send(404, [message |-> "Tag not found"])
     ELSE Send(200, tag.row) :
        tag \in DatabaseStorage_getTagBySlug(this, slug)}

GET_api_tags_slug_posts(this, slug) ==
    UNION {{Send(200, postsWithTags) : postsWithTags \in WithTags(this, posts)} :
              posts \in DatabaseStorage_getPostsByTagSlug(this, slug)}

\* insertPostSchema.parse(req.body) throws a ZodError when slug is missing;
\* any other error of createPost is answered 500
POST_api_posts(this, body, clock) ==
    IF "slug" \notin DOMAIN body
    THEN [this |-> this, response |-> Send(400, [message |-> "Validation error"])]
    ELSE LET d == DatabaseStorage_createPost(this, body, clock)
         IN IF d.result = Failure
            THEN [this |-> d.this,
                  response |-> Send(500, [message |-> "Error creating post"])]
            ELSE [this |-> d.this, response |-> Send(201, d.result.row)]

\* insertTagSchema.parse(req.body) throws a ZodError when name or slug is
\* missing; any other error of createTag is answered 500
POST_api_tags(this, body) ==
    IF "name" \notin DOMAIN body \/ "slug" \notin DOMAIN body
    THEN [this |-> this, response |-> Send(400, [message |-> "Validation error"])]
    ELSE LET d == DatabaseStorage_createTag(this, body)
         IN IF d.result = Failure
            THEN [this |-> d.this,
                  response |-> Send(500, [message |-> "Error creating tag"])]
            ELSE [this |-> d.this, response |-> Send(201, d.result.row)]

\* the document of GET /rss.xml as the list of its elements
Element(name) == [element |-> name]

\* the text before the items: the XML declaration, <rss>, <channel> and the
\* channel's own elements
RssHeader == <<Element("?xml"), Element("rss"), Element("channel"), Element("title"),
               Element("link"), Element("description"), Element("language"),
               Element("lastBuildDate"), Element("atom:link")>>

\* the <item> appended for one post
RssItem(post) == [element |-> "item", link |-> post.slug, guid |-> post.slug,
                  pubDate |-> post.publishedAt]

\* the text after the items
RssClosing == <<Element("/channel"), Element("/rss")>>

\* a feed that leaves out the newest post
GET_rss_xml_skipFirst(this) ==
    UNION {{Send(200, RssHeader \o Map(Tail(postsWithTags), RssItem) \o RssClosing) :
               postsWithTags \in WithTags(this, posts)} :
              posts \in DatabaseStorage_getAllPosts(this) \ {<<>>}}
    \cup {Send(200, RssHeader \o RssClosing) : posts \in DatabaseStorage_getAllPosts(this)}

GET_rss_xml(this) ==
    UNION {{Send(200, RssHeader \o Map(postsWithTags, RssItem) \o RssClosing) :
               postsWithTags \in WithTags(this, posts)} :
              posts \in DatabaseStorage_getAllPosts(this)}

\* the GET routes in the order registerRoutes registers them: the first
\* route whose pattern matches the path handles the request, so
\* /api/posts/featured never reaches /api/posts/:slug
Route(this, path) ==
    IF path = <<"api", "posts", "featured">> THEN GET_api_posts_featured(this)
    ELSE IF Len(path) = 3 /\ path[2] = "posts" THEN GET_api_posts_slug(this, path[3])
    ELSE IF Len(path) = 3 /\ path[2] = "tags" THEN GET_api_tags_slug(this, path[3])
    ELSE IF Len(path) = 4 /\ path[2] = "tags" THEN GET_api_tags_slug_posts(this, path[3])
    ELSE GET_rss_xml(this)

\* a GET request for one of these paths is answered
app_get(path) ==
    /\ impl = "DatabaseStorage"
    /\ \E response \in Route(db, path) :
          res' = [op |-> "GET", args |-> [path |-> path],
                  status |-> response.status, body |-> response.body]
    /\ UNCHANGED <<impl, mem, db, reqs>>

\* a POST request to /api/posts or /api/tags is answered
app_post(path, body, clock) ==
    /\ impl = "DatabaseStorage"
    /\ LET d == IF path = <<"api", "posts">>
                THEN POST_api_posts(db, body, clock)
                ELSE POST_api_tags(db, body)
       IN /\ db' = d.this
          /\ res' = [op |-> "POST", args |-> [path |-> path, body |-> body],
                     status |-> d.response.status, body |-> d.response.body]
    /\ UNCHANGED <<impl, mem, reqs>>

(***************************************************************************)
(* Spec: the post operations and the post listings, on either              *)
(* implementation.                                                         *)
(***************************************************************************)
Next ==
    \/ \E insertPost \in InsertPosts, clock \in Times : createPost(insertPost, clock)
    \/ \E id \in PostIds, postUpdates \in PostUpdates : updatePost(id, postUpdates)
    \/ \E id \in PostIds : deletePost(id)
    \/ getAllPosts
    \/ \E page \in Pages, limit \in Limits : getPaginatedPosts(page, limit)
    \/ \E query \in Queries : GET_api_posts(query)
    \/ getFeaturedPost
    \/ app_get(<<"api", "posts", "featured">>)

Spec == Init /\ [][Next]_vars

(***************************************************************************)
(* TagSpec: tags and post-tag associations over a few posts, on either     *)
(* implementation.  PairSpec: the same calls made on both implementations. *)
(***************************************************************************)
MaxTaggedPosts == 2

TaggedPosts == {[slug |-> "a", publishedAt |-> 1], [slug |-> "b", publishedAt |-> 2]}

TaggedTags == {[name |-> "A", slug |-> "a"], [name |-> "B", slug |-> "b"]}

NextTag ==
    \/ \E insertPost \in TaggedPosts, clock \in Times :
          /\ mem.currentPostId <= MaxTaggedPosts
          /\ db.postsSeq <= MaxTaggedPosts
          /\ createPost(insertPost, clock)
    \/ \E id \in 1..MaxTaggedPosts : deletePost(id)
    \/ \E insertTag \in TaggedTags : createTag(insertTag)
    \/ \E postId \in 1..MaxTaggedPosts, tagId \in TagIds :
          /\ db.postTagsSeq <= MaxPostTags
          /\ addTagToPost([postId |-> postId, tagId |-> tagId])
    \/ \E postId \in 1..MaxTaggedPosts, tagId \in TagIds : removeTagFromPost(postId, tagId)
    \/ \E tagId \in TagIds : getPostsByTagId(tagId)
    \/ \E tagSlug \in Slugs : getPostsByTagSlug(tagSlug)
    \/ \E postId \in 1..MaxTaggedPosts : getTagsByPostId(postId)

TagSpec == Init /\ [][NextTag]_vars

InitPair ==
    /\ impl = "both"
    /\ mem = MemStorage
    /\ db = Database
    /\ res = [op |-> "none"]
    /\ reqs = Idle

PairSpec == InitPair /\ [][NextTag]_vars

(***************************************************************************)
(* CreateSpec: the create operations, on either implementation.            *)
(***************************************************************************)
InsertSubscribers == {[email |-> e] : e \in Emails}

NextCreate ==
    \/ \E insertPost \in InsertPosts, clock \in Times :
          /\ mem.currentPostId <= MaxTaggedPosts
          /\ db.postsSeq <= MaxTaggedPosts
          /\ createPost(insertPost, clock)
    \/ \E insertTag \in TaggedTags : createTag(insertTag)
    \/ \E tagId \in TagIds :
          /\ db.postTagsSeq <= MaxPostTags
          /\ addTagToPost([postId |-> 1, tagId |-> tagId])
    \/ \E insertSubscriber \in InsertSubscribers, clock \in Times :
          /\ mem.currentSubscriberId <= MaxTaggedPosts
          /\ db.subscribersSeq <= MaxTaggedPosts
          /\ createSubscriber(insertSubscriber, clock)

CreateSpec == Init /\ [][NextCreate]_vars

(***************************************************************************)
(* POST /api/subscribe, on the DatabaseStorage instance routes.ts imports. *)
(* A request is handled in two steps, one per awaited storage call; the    *)
(* steps of different requests interleave.  reqs[r] is the request being   *)
(* handled in slot r, or the last response sent there.                     *)
(***************************************************************************)
\* req.body: with or without an email
Bodies == {<<>>} \cup {[email |-> e] : e \in Emails}

Response(body, status, message) ==
    [pc |-> "done", body |-> body, status |-> status, message |-> message]

\* a handler that goes on to createSubscriber whatever the pre-check found
POST_api_subscribe_noPrecheck(this, body) ==
    IF "email" \notin DOMAIN body
    THEN {Response(body, 400, "Validation error")}
    ELSE {[pc |-> "createSubscriber", body |-> body]}

\* a handler that also turns away an email another request is about to insert
POST_api_subscribe_serialized(this, body) ==
    IF "email" \notin DOMAIN body
    THEN {Response(body, 400, "Validation error")}
    ELSE {IF \/ existingSubscriber # Absent
             \/ \E r \in DOMAIN reqs : /\ reqs[r].pc = "createSubscriber"
                                       /\ reqs[r].body.email = body.email
          THEN Response(body, 400, "Email already subscribed")
          ELSE [pc |-> "createSubscriber", body |-> body] :
             existingSubscriber \in DatabaseStorage_getSubscriberByEmail(this, body.email)}

\* insertSubscriberSchema.parse(req.body), then the pre-check
\* getSubscriberByEmail: the request's state after the first await
POST_api_subscribe(this, body) ==
    IF "email" \notin DOMAIN body
    THEN {Response(body, 400, "Validation error")}
    ELSE {IF existingSubscriber # Absent
          THEN Response(body, 400, "Email already subscribed")
          ELSE [pc |-> "createSubscriber", body |-> body] :
             existingSubscriber \in DatabaseStorage_getSubscriberByEmail(this, body.email)}

\* a catch block that answers a rejected INSERT like a failed pre-check
POST_api_subscribe_created_alreadySubscribed(body, result) ==
    IF result = Failure
    THEN Response(body, 400, "Email already subscribed")
    ELSE Response(body, 201, "Subscription successful")

\* the response after createSubscriber settled: 201, or 500 from the catch
POST_api_subscribe_created(body, result) ==
    IF result = Failure
    THEN Response(body, 500, "Error processing subscription")
    ELSE Response(body, 201, "Subscription successful")

Pending == {r \in DOMAIN reqs : reqs[r].pc = "createSubscriber"}

\* a request arrives in slot r and runs up to its second await
Subscribe(r, body) ==
    /\ reqs[r].pc \in {"idle", "done"}
    /\ db.subscribersSeq + Cardinality(Pending) <= MaxSubscribers
    /\ \E next \in POST_api_subscribe(db, body) : reqs' = [reqs EXCEPT ![r] = next]
    /\ UNCHANGED <<impl, mem, db, res>>

\* the INSERT of request r runs and the response is sent
Insert(r) ==
    /\ reqs[r].pc = "createSubscriber"
    /\ \E clock \in Times :
          LET d == DatabaseStorage_createSubscriber(db, [email |-> reqs[r].body.email], clock)
          IN /\ db' = d.this
             /\ reqs' = [reqs EXCEPT ![r] =
                            POST_api_subscribe_created(reqs[r].body, d.result)]
    /\ UNCHANGED <<impl, mem, res>>

InitRoute ==
    /\ impl = "DatabaseStorage"
    /\ mem = MemStorage
    /\ db = Database
    /\ res = [op |-> "none"]
    /\ reqs = Idle

NextRoute ==
    \/ \E r \in 1..MaxRequests, body \in Bodies : Subscribe(r, body)
    \/ \E r \in 1..MaxRequests : Insert(r)

RouteSpec == InitRoute /\ [][NextRoute]_vars

(***************************************************************************)
(* DeleteSpec: DatabaseStorage.deletePost statement by statement.  The     *)
(* call in slot r runs its first DELETE, and other calls may run before    *)
(* its second DELETE does.                                                 *)
(***************************************************************************)
\* deletePost(id) is called in slot r and runs up to its second await
deletePost_postTags(r, id) ==
    /\ reqs[r].pc \in {"idle", "done"}
    /\ LET d == DatabaseStorage_deletePost_postTags(db, id)
       IN /\ db' = d.this
          /\ reqs' = [reqs EXCEPT ![r] = [pc |-> "deletePost", id |-> id,
                                          rowCount |-> d.result.rowCount]]
    /\ UNCHANGED <<impl, mem, res>>

\* the second DELETE of the call in slot r runs and the promise settles
deletePost_posts(r) ==
    /\ reqs[r].pc = "deletePost"
    /\ LET d == DatabaseStorage_deletePost_posts(db, reqs[r].id)
       IN /\ db' = d.this
          /\ reqs' = [reqs EXCEPT ![r] = [pc |-> "done", op |-> "deletePost",
                                          id |-> reqs[r].id,
                                          rowCount |-> reqs[r].rowCount,
                                          result |-> d.result]]
    /\ UNCHANGED <<impl, mem, res>>

NextDelete ==
    \/ \E insertPost \in TaggedPosts, clock \in Times :
          /\ db.postsSeq <= MaxTaggedPosts
          /\ createPost(insertPost, clock)
    \/ \E insertTag \in TaggedTags : createTag(insertTag)
    \/ \E postId \in 1..MaxTaggedPosts, tagId \in TagIds :
          /\ db.postTagsSeq <= MaxPostTags
          /\ addTagToPost([postId |-> postId, tagId |-> tagId])
    \/ \E r \in 1..MaxRequests, id \in 1..MaxTaggedPosts : deletePost_postTags(r, id)
    \/ \E r \in 1..MaxRequests : deletePost_posts(r)

DeleteSpec == InitRoute /\ [][NextDelete]_vars

(***************************************************************************)
(* SeedSpec: registerRoutes on a database that earlier runs of the server  *)
(* may have written tags and posts to.                                     *)
(***************************************************************************)
\* try { await storage.seedData() } catch { log }, then the routes are
\* registered and the server is returned
registerRoutes ==
    /\ impl = "DatabaseStorage"
    /\ \E d \in DatabaseStorage_seedData(db) :
          /\ db' = d.this
          /\ res' = [op |-> "registerRoutes", seedData |-> d.result, log |-> d.log,
                     returned |-> "httpServer"]
    /\ UNCHANGED <<impl, mem, reqs>>

NextSeed ==
    \/ registerRoutes
    \/ \E insertPost \in TaggedPosts, clock \in Times :
          /\ db.postsSeq <= MaxTaggedPosts
          /\ createPost(insertPost, clock)
    \/ \E insertTag \in TaggedTags : createTag(insertTag)
    \/ \E id \in 1..MaxTaggedPosts : deletePost(id)

SeedSpec == InitRoute /\ [][NextSeed]_vars

(***************************************************************************)
(* ApiSpec: the routes that create and look up posts and tags, and the     *)
(* feed.                                                                   *)
(***************************************************************************)
ApiSlugs == {"a", "featured"}

\* req.body of POST /api/posts: without a slug, or valid
PostBodies == {<<>>} \cup {[slug |-> sl] : sl \in ApiSlugs}

\* req.body of POST /api/tags: without name and slug, or valid
TagBodies == {<<>>} \cup InsertTags

Paths == {<<"api", "posts", sl>> : sl \in ApiSlugs}
         \cup {<<"api", "tags", sl>> : sl \in Slugs}
         \cup {<<"rss.xml">>}

NextApi ==
    \/ \E body \in PostBodies, clock \in Times :
          /\ db.postsSeq <= MaxTaggedPosts
          /\ app_post(<<"api", "posts">>, body, clock)
    \/ \E body \in TagBodies :
          /\ db.tagsSeq <= MaxTags
          /\ app_post(<<"api", "tags">>, body, 1)
    \/ \E postId \in 1..MaxTaggedPosts, tagId \in TagIds :
          /\ db.postTagsSeq <= MaxPostTags
          /\ addTagToPost([postId |-> postId, tagId |-> tagId])
    \/ \E path \in Paths : app_get(path)

ApiSpec == InitRoute /\ [][NextApi]_vars

(***************************************************************************)
(* UpdateSpec: updatePost on posts that may carry tags, on either           *)
(* implementation.                                                         *)
(***************************************************************************)
\* posts with and without a publishedAt
UpdatedPosts == {[slug |-> "a"], [slug |-> "b", publishedAt |-> 1]}

\* updates of the slug, of publishedAt, and of both
Updates == {[slug |-> "a"], [slug |-> "b"], [publishedAt |-> 2],
            [slug |-> "b", publishedAt |-> 2]}

NextUpdate ==
    \/ \E insertPost \in UpdatedPosts :
          /\ mem.currentPostId <= MaxTaggedPosts
          /\ db.postsSeq <= MaxTaggedPosts
          /\ createPost(insertPost, 1)
    \/ /\ db.tagsSeq <= MaxTags
       /\ createTag([name |-> "A", slug |-> "a"])
    \/ \E postId \in 1..MaxTaggedPosts :
          /\ db.postTagsSeq <= MaxPostTags
          /\ addTagToPost([postId |-> postId, tagId |-> 1])
    \/ \E id \in 1..MaxTaggedPosts, postUpdates \in Updates : updatePost(id, postUpdates)

UpdateSpec == Init /\ [][NextUpdate]_vars

(***************************************************************************)
(* MemSeedSpec: a MemStorage instance from the return of its constructor.  *)
(* reqs is the frame of the seedData call the constructor started.         *)
(***************************************************************************)
InitMemSeed ==
    /\ impl = "MemStorage"
    /\ mem = MemStorage_constructor.this
    /\ db = Database
    /\ res = [op |-> "none"]
    /\ reqs = MemStorage_constructor.frame

\* seedData resumes and runs to its next await
seedData ==
    /\ reqs.pc # "returned"
    /\ LET s == MemStorage_seedData(mem, reqs)
       IN /\ mem' = s.this
          /\ reqs' = s.frame
    /\ UNCHANGED <<impl, db, res>>

NextMemSeed ==
    \/ seedData
    \/ \E insertPost \in TaggedPosts, clock \in Times : createPost(insertPost, clock)
    \/ getAllPosts
    \/ \E tagId \in TagIds : getPostsByTagId(tagId)
    \/ \E postId \in 1..MaxTaggedPosts : getTagsByPostId(postId)

MemSeedSpec == InitMemSeed /\ [][NextMemSeed]_vars

(***************************************************************************)
(* QuerySpec: GET /api/posts with any query string.                        *)
(***************************************************************************)
\* values of a query parameter: decimal, negative, not a number, with white
\* space in front, with text behind
QueryStrings == {Numeral(0), Numeral(1), Numeral(2), <<"-", "1">>, <<"-", "2">>,
                 <<"a">>, <<" ", "2">>, <<"1", "a">>}

RawQueries == {<<>>}
              \cup {[page |-> v] : v \in QueryStrings}
              \cup {[limit |-> v] : v \in QueryStrings}
              \cup [page : QueryStrings, limit : QueryStrings]

NextQuery ==
    \/ \E insertPost \in TaggedPosts, clock \in Times :
          /\ db.postsSeq <= MaxTaggedPosts
          /\ createPost(insertPost, clock)
    \/ \E query \in RawQueries : GET_api_posts(query)

QuerySpec == InitRoute /\ [][NextQuery]_vars

(***************************************************************************)
(* ListSpec: the routes that list posts with their tags.                   *)
(***************************************************************************)
NextList ==
    \/ \E insertPost \in TaggedPosts, clock \in Times :
          /\ db.postsSeq <= MaxTaggedPosts
          /\ createPost(insertPost, clock)
    \/ \E insertTag \in TaggedTags : createTag(insertTag)
    \/ \E postId \in 1..MaxTaggedPosts, tagId \in TagIds :
          /\ db.postTagsSeq <= MaxPostTags
          /\ addTagToPost([postId |-> postId, tagId |-> tagId])
    \/ \E l \in 1..MaxLimit : GET_api_posts([limit |-> Numeral(l)])
    \/ \E sl \in Slugs : app_get(<<"api", "tags", sl, "posts">>)

ListSpec == InitRoute /\ [][NextList]_vars

(***************************************************************************)
(* IdSpec: the creates and deletes of a MemStorage instance.               *)
(***************************************************************************)
InitMem ==
    /\ impl = "MemStorage"
    /\ mem = MemStorage
    /\ db = Database
    /\ res = [op |-> "none"]
    /\ reqs = Idle

NextId ==
    \/ /\ mem.currentPostId <= MaxTaggedPosts
       /\ createPost([slug |-> "a", publishedAt |-> 1], 1)
    \/ \E id \in 1..MaxTaggedPosts : deletePost(id)
    \/ /\ db.tagsSeq <= MaxTags
       /\ createTag([name |-> "A", slug |-> "a"])
    \/ \E postId \in 1..MaxTaggedPosts :
          /\ db.postTagsSeq <= MaxPostTags
          /\ addTagToPost([postId |-> postId, tagId |-> 1])
    \/ \E postId \in 1..MaxTaggedPosts : removeTagFromPost(postId, 1)

IdSpec == InitMem /\ [][NextId]_vars

(***************************************************************************)
(* SlugSpec: the posts of a tag looked up by the tag's slug, through the   *)
(* repository of either implementation and through the route.              *)
(***************************************************************************)
NextSlug ==
    \/ \E insertPost \in TaggedPosts :
          /\ mem.currentPostId <= MaxTaggedPosts
          /\ db.postsSeq <= MaxTaggedPosts
          /\ createPost(insertPost, 1)
    \/ \E insertTag \in TaggedTags : createTag(insertTag)
    \/ \E postId \in 1..MaxTaggedPosts, tagId \in TagIds :
          /\ db.postTagsSeq <= MaxPostTags
          /\ addTagToPost([postId |-> postId, tagId |-> tagId])
    \/ \E tagSlug \in Slugs : getPostsByTagSlug(tagSlug)
    \/ \E sl \in Slugs : app_get(<<"api", "tags", sl, "posts">>)

SlugSpec == Init /\ [][NextSlug]_vars

(***************************************************************************)
(* RemoveSpec: removeTagFromPost, on either implementation.                *)
(***************************************************************************)
NextRemove ==
    \/ /\ mem.currentPostId <= MaxTaggedPosts
       /\ db.postsSeq <= MaxTaggedPosts
       /\ createPost([slug |-> "a", publishedAt |-> 1], 1)
    \/ /\ db.tagsSeq <= MaxTags
       /\ createTag([name |-> "A", slug |-> "a"])
    \/ \E postId \in 1..MaxTaggedPosts, tagId \in TagIds :
          /\ db.postTagsSeq <= MaxPostTags
          /\ addTagToPost([postId |-> postId, tagId |-> tagId])
    \/ \E postId \in 1..MaxTaggedPosts, tagId \in TagIds : removeTagFromPost(postId, tagId)

RemoveSpec == Init /\ [][NextRemove]_vars

(***************************************************************************)
(* Properties.                                                             *)
(***************************************************************************)
\* the elements at 0-based positions (page-1)*limit .. min(page*limit, total)-1
Positions(all, page, limit) ==
    LET first == (page - 1) * limit
        last == Min(page * limit, Len(all)) - 1
    IN [i \in 1..Max(0, last - first + 1) |-> all[first + i]]

\* C1: for page >= 1 and limit >= 1, getPaginatedPosts returns at most limit
\* posts and a total equal to the number of posts in the store, in both
\* implementations, and GET /api/posts reports totalPages = ceil(total / limit),
\* the least integer n with n * limit >= total.
C1_PageSizeAndTotal ==
    /\ res.op = "getPaginatedPosts" =>
          /\ CallsMem => /\ Len(res.mem.posts) <= res.args.limit
                         /\ res.mem.total = Cardinality(DOMAIN mem.posts)
          /\ CallsDb => /\ Len(res.db.posts) <= res.args.limit
                        /\ res.db.total = Cardinality(DOMAIN db.posts)
    /\ res.op = "GET /api/posts" =>
          LET p == res.body.pagination
          IN /\ p.page >= 1 /\ p.limit >= 1
             /\ Len(res.body.posts) <= p.limit
             /\ p.total = Cardinality(DOMAIN db.posts)
             /\ p.totalPages * p.limit >= p.total
             /\ (p.totalPages - 1) * p.limit < p.total
             /\ p.totalPages >= 0

\* C1 witness: two posts listed one per page, the second page requested
C1_Witness ==
    /\ res.op = "GET /api/posts"
    /\ res.body.pagination.total = 2
    /\ res.body.pagination.page = 2
    /\ res.body.pagination.limit = 1
    /\ res.body.pagination.totalPages = 2
    /\ Len(res.body.posts) = 1

\* C2 as stated: the page is exactly the slice at positions (page-1)*limit ..
\* min(page*limit, total)-1 of the order getAllPosts returns, whatever
\* getAllPosts returns in that store state.
C2_SliceOfGetAllPosts ==
    res.op = "getPaginatedPosts" =>
       /\ CallsMem => res.mem.posts =
                         Positions(MemStorage_getAllPosts(mem), res.args.page, res.args.limit)
       /\ CallsDb => \A all \in DatabaseStorage_getAllPosts(db) :
                        res.db.posts = Positions(all, res.args.page, res.args.limit)

DistinctPublishedAt(posts) ==
    \A i, j \in DOMAIN posts : i # j => posts[i].publishedAt # posts[j].publishedAt

\* C2 amended: in MemStorage the page is exactly that slice of the getAllPosts
\* order; in DatabaseStorage it is that slice of a publishedAt-descending order
\* of all posts, which is the getAllPosts order when no two posts have the
\* same publishedAt; a page past the end is empty.
C2_SliceOfDescendingOrder ==
    res.op = "getPaginatedPosts" =>
       /\ CallsMem =>
             /\ res.mem.posts =
                   Positions(MemStorage_getAllPosts(mem), res.args.page, res.args.limit)
             /\ (res.args.page - 1) * res.args.limit >= Cardinality(DOMAIN mem.posts)
                   => res.mem.posts = <<>>
       /\ CallsDb =>
             /\ \E all \in DatabaseStorage_getAllPosts(db) :
                   res.db.posts = Positions(all, res.args.page, res.args.limit)
             /\ DistinctPublishedAt(db.posts) =>
                   \A all \in DatabaseStorage_getAllPosts(db) :
                      res.db.posts = Positions(all, res.args.page, res.args.limit)
             /\ (res.args.page - 1) * res.args.limit >= Cardinality(DOMAIN db.posts)
                   => res.db.posts = <<>>

\* C2 witness: the second page of a database that holds two posts published
\* at the same time
C2_Witness ==
    /\ res.op = "getPaginatedPosts"
    /\ CallsDb
    /\ res.args.page = 2
    /\ res.args.limit = 1
    /\ Cardinality(DOMAIN db.posts) = 2
    /\ ~DistinctPublishedAt(db.posts)
    /\ Len(res.db.posts) = 1

\* a list of posts is ordered by publishedAt non-increasing; a post without a
\* publishedAt is passed over
NonIncreasing(posts) ==
    \A i, j \in 1..Len(posts) :
       (/\ i < j
        /\ Get(posts[i], "publishedAt") # undefined
        /\ Get(posts[j], "publishedAt") # undefined)
          => posts[i].publishedAt >= posts[j].publishedAt

Listing(r) == IF r.kind = "page" THEN r.posts ELSE r.rows

\* C3: after any sequence of createPost, updatePost and deletePost, the lists
\* returned by getAllPosts, getPaginatedPosts, getPostsByTagId and
\* getPostsByTagSlug are ordered by publishedAt non-increasing.
C3_ListsNonIncreasing ==
    res.op \in {"getAllPosts", "getPaginatedPosts", "getPostsByTagId", "getPostsByTagSlug"} =>
       /\ CallsMem => NonIncreasing(Listing(res.mem))
       /\ CallsDb => NonIncreasing(Listing(res.db))

\* an email is held by a subscriber row of the database
Subscribed(this, email) ==
    \E i \in DOMAIN this.subscribers : this.subscribers[i].email = email

\* C4: a POST /api/subscribe that finds its email held by an existing
\* subscriber is answered 400 "Email already subscribed" and changes no
\* subscriber row; the POST that is first to insert an email is answered 201
\* and adds exactly one row, which holds that email.
C4_SubscribeTwice ==
    [][\A r \in 1..MaxRequests :
          /\ (/\ reqs[r].pc \in {"idle", "done"}
              /\ reqs'[r] # reqs[r]
              /\ "email" \in DOMAIN reqs'[r].body
              /\ Subscribed(db, reqs'[r].body.email))
                => /\ reqs'[r].pc = "done"
                   /\ reqs'[r].status = 400
                   /\ reqs'[r].message = "Email already subscribed"
                   /\ db'.subscribers = db.subscribers
          /\ (/\ reqs[r].pc = "createSubscriber"
              /\ reqs'[r].pc = "done"
              /\ ~Subscribed(db, reqs[r].body.email))
                => /\ reqs'[r].status = 201
                   /\ \E id \in (DOMAIN db'.subscribers) \ (DOMAIN db.subscribers) :
                         /\ DOMAIN db'.subscribers = (DOMAIN db.subscribers) \cup {id}
                         /\ db'.subscribers[id].email = reqs[r].body.email
                   /\ \A i \in DOMAIN db.subscribers :
                         db'.subscribers[i] = db.subscribers[i]]_vars

\* C4 witness: an email was subscribed with 201 and the repeated request was
\* answered 400
C4_Witness ==
    \E r, q \in 1..MaxRequests :
       /\ reqs[r].pc = "done" /\ reqs[r].status = 201
       /\ reqs[q].pc = "done" /\ reqs[q].status = 400
       /\ reqs[q].message = "Email already subscribed"
       /\ reqs[q].body = reqs[r].body
       /\ Cardinality(DOMAIN db.subscribers) = 1

\* C5: in every state reachable through any sequence and interleaving of
\* POST /api/subscribe requests, no two subscriber rows have the same email.
C5_UniqueEmails ==
    \A i, j \in DOMAIN db.subscribers :
       i # j => db.subscribers[i].email # db.subscribers[j].email

\* C5 witness: two requests with the same email both passed the pre-check and
\* both inserts ran
C5_Witness ==
    \E r, q \in 1..MaxRequests :
       /\ r # q
       /\ reqs[r].pc = "done" /\ reqs[r].status = 201
       /\ reqs[q].pc = "done" /\ reqs[q].status = 500
       /\ reqs[q].body = reqs[r].body

\* every PostTag row names a tag of the store
TagsExist(this) ==
    \A i \in DOMAIN this.postTags : this.postTags[i].tagId \in DOMAIN this.tags

\* C6: after a deletePost(p) that deleted post p returns, no PostTag row has
\* postId = p and getTagsByPostId(p) returns the empty list, in both
\* implementations.
C6_DeletePostRemovesPostTags ==
    res.op = "deletePost" =>
       /\ (CallsMem /\ res.mem = Bool(TRUE) /\ TagsExist(mem)) =>
             /\ \A i \in DOMAIN mem.postTags : mem.postTags[i].postId # res.args.id
             /\ MemStorage_getTagsByPostId(mem, res.args.id) = <<>>
       /\ (CallsDb /\ res.db = Bool(TRUE) /\ TagsExist(db)) =>
             /\ \A i \in DOMAIN db.postTags : db.postTags[i].postId # res.args.id
             /\ \A tags \in DatabaseStorage_getTagsByPostId(db, res.args.id) : tags = <<>>

\* C7: with post p and tag t existing, already associated or not, after
\* addTagToPost({postId: p, tagId: t}) getTagsByPostId(p) contains t exactly once.
C7_TagListedOnce ==
    res.op = "addTagToPost" =>
       /\ (/\ CallsMem
           /\ res.args.postId \in DOMAIN mem.posts
           /\ res.args.tagId \in DOMAIN mem.tags)
             => Count(MemStorage_getTagsByPostId(mem, res.args.postId), res.args.tagId) = 1
       /\ (/\ CallsDb
           /\ res.args.postId \in DOMAIN db.posts
           /\ res.args.tagId \in DOMAIN db.tags)
             => \A tags \in DatabaseStorage_getTagsByPostId(db, res.args.postId) :
                   Count(tags, res.args.tagId) = 1

\* C8: with post p and tag t existing, after removeTagFromPost(p, t) returns
\* true getTagsByPostId(p) does not contain t, by however many PostTag rows t
\* was associated with p.
C8_RemovedTagAbsent ==
    res.op = "removeTagFromPost" =>
       /\ (/\ CallsMem /\ res.mem = Bool(TRUE)
           /\ res.args.postId \in DOMAIN mem.posts
           /\ res.args.tagId \in DOMAIN mem.tags)
             => Count(MemStorage_getTagsByPostId(mem, res.args.postId), res.args.tagId) = 0
       /\ (/\ CallsDb /\ res.db = Bool(TRUE)
           /\ res.args.postId \in DOMAIN db.posts
           /\ res.args.tagId \in DOMAIN db.tags)
             => \A tags \in DatabaseStorage_getTagsByPostId(db, res.args.postId) :
                   Count(tags, res.args.tagId) = 0

\* two lists hold the same rows the same number of times
SameRows(a, b) ==
    /\ Len(a) = Len(b)
    /\ \A i \in 1..Len(a) :
          Cardinality({j \in 1..Len(a) : a[j] = a[i]})
             = Cardinality({j \in 1..Len(b) : b[j] = a[i]})

\* two lists of posts agree up to the order of posts with equal publishedAt
SamePosts(a, b) ==
    /\ SameRows(a, b)
    /\ \A i \in 1..Len(a) : Get(a[i], "publishedAt") = Get(b[i], "publishedAt")

\* the two promises settled alike
SameResult(op, m, d) ==
    /\ m.kind = d.kind
    /\ m.kind \in {"row", "boolean", "undefined", "error"} => m = d
    /\ m.kind = "page" => m.total = d.total /\ SamePosts(m.posts, d.posts)
    /\ m.kind = "rows" =>
          IF op = "getTagsByPostId" THEN SameRows(m.rows, d.rows)
          ELSE SamePosts(m.rows, d.rows)

\* the rows a call names exist in both stores
NamesExistingRows(r) ==
    r.op = "addTagToPost" =>
       /\ r.args.postId \in (DOMAIN mem.posts) \cap (DOMAIN db.posts)
       /\ r.args.tagId \in (DOMAIN mem.tags) \cap (DOMAIN db.tags)

\* C9: the same sequence of IStorage operations applied to a MemStorage and to
\* a DatabaseStorage that start from the same contents returns the same result
\* in both at every operation, up to the order of posts with equal publishedAt
\* (stated for the calls that name existing rows).
C9_SameResults ==
    (impl = "both" /\ res.op # "none" /\ NamesExistingRows(res))
       => SameResult(res.op, res.mem, res.db)

UniqueSlugs(rows) ==
    \A i, j \in DOMAIN rows : i # j => rows[i].slug # rows[j].slug

UniqueNames(rows) ==
    \A i, j \in DOMAIN rows : i # j => rows[i].name # rows[j].name

\* the call recorded in r, made on a store with these posts and tags, would
\* duplicate a slug or a name
WouldDuplicate(r, posts, tags) ==
    \/ /\ r.op = "createPost"
       /\ \E i \in DOMAIN posts : posts[i].slug = r.args.slug
    \/ /\ r.op = "updatePost"
       /\ r.args.id \in DOMAIN posts
       /\ "slug" \in DOMAIN r.args.postUpdates
       /\ \E i \in DOMAIN posts : i # r.args.id /\ posts[i].slug = r.args.postUpdates.slug
    \/ /\ r.op = "createTag"
       /\ \E i \in DOMAIN tags :
             tags[i].slug = r.args.slug \/ tags[i].name = r.args.name

\* C10: in every state reached by createPost, updatePost, deletePost and
\* createTag no two posts share a slug and no two tags share a slug or a name,
\* and a create or update that would duplicate one fails and leaves the rows
\* unchanged.
C10_UniqueSlugsAndNames ==
    [][/\ CallsMem =>
             /\ UniqueSlugs(mem'.posts) /\ UniqueSlugs(mem'.tags) /\ UniqueNames(mem'.tags)
             /\ WouldDuplicate(res', mem.posts, mem.tags) =>
                   /\ res'.mem = Failure
                   /\ mem'.posts = mem.posts /\ mem'.tags = mem.tags
       /\ CallsDb =>
             /\ UniqueSlugs(db'.posts) /\ UniqueSlugs(db'.tags) /\ UniqueNames(db'.tags)
             /\ WouldDuplicate(res', db.posts, db.tags) =>
                   /\ res'.db = Failure
                   /\ db'.posts = db.posts /\ db'.tags = db.tags]_vars

\* every post_tags row of the database references a post row and a tag row
\* that exist
References(this) ==
    \A i \in DOMAIN this.postTags :
       /\ this.postTags[i].postId \in DOMAIN this.posts
       /\ this.postTags[i].tagId \in DOMAIN this.tags

\* C11: in every reachable state of the database every PostTag row references
\* a post row and a tag row that both exist, whatever runs between the two
\* statements of a deletePost; and an addTagToPost that names a missing post
\* or a missing tag fails and inserts no row.
C11_ReferentialIntegrity ==
    /\ [](CallsDb => References(db))
    /\ [][(/\ db'.postTagsSeq # db.postTagsSeq
           /\ \/ res'.args.postId \notin DOMAIN db.posts
              \/ res'.args.tagId \notin DOMAIN db.tags)
             => /\ res'.op = "addTagToPost"
                /\ res'.db = Failure
                /\ db'.postTags = db.postTags]_vars

\* C11 witness: an addTagToPost was rejected for a missing post or tag while
\* the table holds a row that references an existing post and tag
C11_Witness ==
    /\ res.op = "addTagToPost"
    /\ res.db = Failure
    /\ \/ res.args.postId \notin DOMAIN db.posts
       \/ res.args.tagId \notin DOMAIN db.tags
    /\ db.postTags # <<>>
    /\ References(db)

\* C12: a step that removes a post row belongs to a deletePost call that has
\* already run its DELETE on post_tags, and no PostTag row references the post
\* before or after that step: the post row is never absent while a PostTag
\* row referencing it is present.
C12_PostTagsDeletedFirst ==
    [][\A p \in DOMAIN db.posts :
          p \notin DOMAIN db'.posts =>
             /\ \E r \in DOMAIN reqs : /\ reqs[r].pc = "deletePost"
                                       /\ reqs[r].id = p
                                       /\ reqs'[r].pc = "done"
             /\ \A i \in DOMAIN db.postTags : db.postTags[i].postId # p
             /\ \A i \in DOMAIN db'.postTags : db'.postTags[i].postId # p]_vars

\* C12 witness: a deletePost of a tagged post has deleted its PostTag rows and
\* then the post row
C12_Witness ==
    \E r \in DOMAIN reqs :
       /\ reqs[r].pc = "done"
       /\ reqs[r].op = "deletePost"
       /\ reqs[r].rowCount > 0
       /\ reqs[r].result = Bool(TRUE)
       /\ reqs[r].id \notin DOMAIN db.posts
       /\ \A i \in DOMAIN db.postTags : db.postTags[i].postId # reqs[r].id

\* C13: a POST /api/subscribe whose email no subscriber row holds passes the
\* pre-check and goes on to createSubscriber, whatever the other requests in
\* flight are doing: two requests with the same email can both have passed
\* the pre-check before either createSubscriber runs.
C13_PrecheckNotAtomic ==
    [][\A r \in 1..MaxRequests :
          (/\ reqs[r].pc \in {"idle", "done"}
           /\ reqs'[r] # reqs[r]
           /\ "email" \in DOMAIN reqs'[r].body
           /\ ~Subscribed(db, reqs'[r].body.email))
             => reqs'[r].pc = "createSubscriber"]_vars

\* C13 witness: two requests with the same email have both passed the
\* pre-check and neither createSubscriber has run
C13_Witness ==
    \E r1, r2 \in 1..MaxRequests :
       /\ r1 # r2
       /\ reqs[r1].pc = "createSubscriber"
       /\ reqs[r2].pc = "createSubscriber"
       /\ reqs[r1].body.email = reqs[r2].body.email
       /\ ~Subscribed(db, reqs[r1].body.email)

\* the rows of the tables seedData writes to
SeedTables(this) == <<this.users, this.tags, this.posts, this.postTags>>

\* C14: seedData invoked on a database that holds at least one user resolves
\* and inserts nothing: the users, tags, posts and PostTag rows after the
\* invocation are those before it.
C14_SeedIdempotent ==
    [][(/\ res'.op = "registerRoutes"
        /\ (res' # res \/ db' # db)
        /\ Cardinality(DOMAIN db.users) > 0)
          => /\ res'.seedData = Absent
             /\ SeedTables(db') = SeedTables(db)]_vars

\* C14 witness: seedData was invoked on the database a completed seeding left
\* and skipped
C14_Witness ==
    /\ res.op = "registerRoutes"
    /\ res.log = "Database already seeded, skipping..."
    /\ Cardinality(DOMAIN db.users) = 1
    /\ Cardinality(DOMAIN db.tags) = Len(tagNames)
    /\ Cardinality(DOMAIN db.posts) = Len(samplePosts)
    /\ db.postTags # <<>>

\* C15: registerRoutes returns the server whether or not seedData failed, and
\* a seedData that failed leaves no user, tag, post or PostTag row of its own
\* in the store.
C15_FailedSeedLeavesNothing ==
    [][(/\ res'.op = "registerRoutes"
        /\ (res' # res \/ db' # db))
          => /\ res'.returned = "httpServer"
             /\ res'.seedData = Failure => SeedTables(db') = SeedTables(db)]_vars

\* C16: a POST /api/posts whose valid body repeats the slug of an existing
\* post, and a POST /api/tags whose valid body repeats the name or the slug of
\* an existing tag, is answered 400 and creates no row.
C16_DuplicateAnswered400 ==
    [][/\ (/\ db'.postsSeq # db.postsSeq
           /\ \E i \in DOMAIN db.posts : db.posts[i].slug = res'.args.body.slug)
             => /\ res'.status = 400
                /\ db'.posts = db.posts
       /\ (/\ db'.tagsSeq # db.tagsSeq
           /\ \E i \in DOMAIN db.tags : \/ db.tags[i].name = res'.args.body.name
                                        \/ db.tags[i].slug = res'.args.body.slug)
             => /\ res'.status = 400
                /\ db'.tags = db.tags]_vars

\* what getFeaturedPost returned on a store with these posts, of which lists
\* are the orders getAllPosts may return: undefined exactly when there is no
\* post, otherwise the first post of such an order, published no earlier than
\* any other post (posts without a publishedAt are passed over)
Featured(result, posts, lists) ==
    /\ result = Absent <=> DOMAIN posts = {}
    /\ result # Absent =>
          /\ \E s \in lists : Len(s) > 0 /\ s[1] = result.row
          /\ \A i \in DOMAIN posts :
                (/\ Get(result.row, "publishedAt") # undefined
                 /\ Get(posts[i], "publishedAt") # undefined)
                   => result.row.publishedAt >= posts[i].publishedAt

\* C17: getFeaturedPost returns undefined exactly when the store has no posts
\* and otherwise a post published no earlier than every post in the store, the
\* first of the getAllPosts order, in both implementations; GET
\* /api/posts/featured answers 404 in the first case and 200 with that post
\* and its tags in the second.
C17_FeaturedIsNewest ==
    /\ res.op = "getFeaturedPost" =>
          /\ CallsMem => Featured(res.mem, mem.posts, {MemStorage_getAllPosts(mem)})
          /\ CallsDb => Featured(res.db, db.posts, DatabaseStorage_getAllPosts(db))
    /\ (res.op = "GET" /\ res.args.path = <<"api", "posts", "featured">>) =>
          /\ res.status = 404 <=> DOMAIN db.posts = {}
          /\ res.status # 404 =>
                /\ res.status = 200
                /\ \E s \in DatabaseStorage_getAllPosts(db) :
                      /\ Len(s) > 0
                      /\ res.body = Spread(s[1], [tags |-> res.body.tags])
                /\ \A i \in DOMAIN db.posts : res.body.publishedAt >= db.posts[i].publishedAt
                /\ res.body.tags \in DatabaseStorage_getTagsByPostId(db, res.body.id)

\* the <item> elements of a feed, in document order
Items(doc) == SelectSeq(doc, LAMBDA e : e.element = "item")

AnswersLookup(r, rows, slug) ==
    LET found == {i \in DOMAIN rows : rows[i].slug = slug}
    IN /\ r.status = 404 <=> found = {}
       /\ r.status # 404 =>
             /\ r.status = 200
             /\ \E i \in found : \A k \in DOMAIN rows[i] : r.body[k] = rows[i][k]

\* the path asks for a row by its slug; /api/posts/featured is taken to ask
\* for the post whose slug is "featured" only when there is such a post
LooksUpSlug(path, this) ==
    /\ Len(path) = 3
    /\ path = <<"api", "posts", "featured">> =>
          \E i \in DOMAIN this.posts : this.posts[i].slug = "featured"

Persisted(result, rows, insert) ==
    result.kind = "row" =>
       /\ result.row.id \in DOMAIN rows
       /\ rows[result.row.id] = result.row
       /\ \A k \in DOMAIN insert : Get(result.row, k) = insert[k]

\* the promise resolved to a row whose field has this value
Defaulted(result, field, value) ==
    result.kind = "row" => Get(result.row, field) = value

\* C20: createPost, createTag, addTagToPost and createSubscriber return the
\* row the store holds, with its generated id and the fields of the insert, in
\* both implementations; a post created without publishedAt has the creation
\* time as its publishedAt, and a subscriber has the creation time as its
\* createdAt.
C20_CreateReturnsPersistedRow ==
    /\ res.op = "createPost" =>
          LET publishedAt == IF "publishedAt" \in DOMAIN res.args
                             THEN res.args.publishedAt ELSE res.clock
          IN /\ CallsMem => /\ Persisted(res.mem, mem.posts, res.args)
                            /\ Defaulted(res.mem, "publishedAt", publishedAt)
             /\ CallsDb => /\ Persisted(res.db, db.posts, res.args)
                           /\ Defaulted(res.db, "publishedAt", publishedAt)
    /\ res.op = "createTag" =>
          /\ CallsMem => Persisted(res.mem, mem.tags, res.args)
          /\ CallsDb => Persisted(res.db, db.tags, res.args)
    /\ res.op = "addTagToPost" =>
          /\ CallsMem => Persisted(res.mem, mem.postTags, res.args)
          /\ CallsDb => Persisted(res.db, db.postTags, res.args)
    /\ res.op = "createSubscriber" =>
          /\ CallsMem => /\ Persisted(res.mem, mem.subscribers, res.args)
                         /\ Defaulted(res.mem, "createdAt", res.clock)
          /\ CallsDb => /\ Persisted(res.db, db.subscribers, res.args)
                        /\ Defaulted(res.db, "createdAt", res.clock)

\* the updates would give post id a slug that another post has
SlugTaken(posts, id, postUpdates) ==
    /\ "slug" \in DOMAIN postUpdates
    /\ \E i \in (DOMAIN posts) \ {id} : posts[i].slug = postUpdates.slug

\* updatePost(id, postUpdates) took the store from before to after and
\* returned result: undefined and no change for a missing id; for an existing
\* id the fields of postUpdates replaced, every other field and the id kept,
\* every other post and everything else in the store as before, and the
\* updated row returned
Updated(before, after, result, id, postUpdates) ==
    IF id \notin DOMAIN before.posts
    THEN result = Absent /\ after = before
    ELSE /\ DOMAIN after.posts = DOMAIN before.posts
         /\ after.posts[id].id = id
         /\ DOMAIN after.posts[id] = (DOMAIN before.posts[id]) \cup (DOMAIN postUpdates)
         /\ \A k \in DOMAIN postUpdates : after.posts[id][k] = postUpdates[k]
         /\ \A k \in (DOMAIN before.posts[id]) \ (DOMAIN postUpdates) :
               after.posts[id][k] = before.posts[id][k]
         /\ \A i \in (DOMAIN before.posts) \ {id} : after.posts[i] = before.posts[i]
         /\ after.postTags = before.postTags
         /\ after = [before EXCEPT !.posts = after.posts]
         /\ result = Row(after.posts[id])

C22_RaceAnswered201Then500 ==
    [][\A r \in 1..MaxRequests :
          (reqs[r].pc = "createSubscriber" /\ reqs'[r].pc = "done") =>
             LET email == reqs[r].body.email
             IN /\ Cardinality({i \in DOMAIN db'.subscribers :
                                   db'.subscribers[i].email = email}) = 1
                /\ IF Subscribed(db, email)
                   THEN /\ reqs'[r].status = 500
                        /\ reqs'[r].message = "Error processing subscription"
                        /\ db'.subscribers = db.subscribers
                   ELSE reqs'[r].status = 201]_vars

\* C22 witness: of two requests with the same email one was answered 201 and
\* the other 500, and one row holds the email
C22_Witness ==
    \E r, q \in 1..MaxRequests :
       /\ reqs[r].pc = "done" /\ reqs[r].status = 201
       /\ reqs[q].pc = "done" /\ reqs[q].status = 500
       /\ reqs[q].message = "Error processing subscription"
       /\ reqs[q].body = reqs[r].body
       /\ Cardinality({i \in DOMAIN db.subscribers :
                          db.subscribers[i].email = reqs[r].body.email}) = 1

\* C23: DatabaseStorage.deletePost(p) is all-or-nothing when addTagToPost
\* calls for p run between its statements: no call ends with the post row
\* still there and post_tags rows of the post deleted, and no call fails
\* after it changed the store.
C23_DeletePostAllOrNothing ==
    [][\A r \in 1..MaxRequests :
          (reqs[r].pc = "deletePost" /\ reqs'[r].pc = "done") =>
             /\ ~(reqs'[r].id \in DOMAIN db'.posts /\ reqs'[r].rowCount > 0)
             /\ ~(reqs'[r].result = Failure /\ reqs'[r].rowCount > 0)]_vars

\* the store holds the whole of the seed data: the user, every tag, every
\* sample post, and for every sample post a post_tags row for each tag its
\* title names
CompletelySeeded(this) ==
    /\ \E u \in DOMAIN this.users : this.users[u].username = "admin"
    /\ \A i \in 1..Len(tagNames) :
          \E g \in DOMAIN this.tags : this.tags[g].name = tagNames[i]
    /\ \A p \in 1..Len(MemStorage_samplePosts) :
          \E id \in DOMAIN this.posts :
             /\ "title" \in DOMAIN this.posts[id]
             /\ this.posts[id].title = MemStorage_samplePosts[p].title
             /\ \A g \in DOMAIN this.tags :
                   Includes(this.posts[id].title, this.tags[g].name) =>
                      \E pt \in DOMAIN this.postTags :
                         this.postTags[pt] = [id |-> pt, postId |-> id, tagId |-> g]

\* C24: every operation called on a MemStorage instance after its
\* constructor returned finds the store completely seeded: no operation
\* runs on a store that holds only part of the seed data.
C24_SeededBeforeAnyOperation ==
    [][reqs' = reqs => CompletelySeeded(mem)]_vars

\* C25: whatever the page and limit query parameters are (missing, not
\* numeric, zero or negative), GET /api/posts calls getPaginatedPosts with
\* page >= 1 and limit >= 1, so that the start index is never negative, and
\* pagination.totalPages is a non-negative integer.
C25_PageAndLimitPositive ==
    res.op = "GET /api/posts" =>
       /\ res.getPaginatedPosts.page >= 1
       /\ res.getPaginatedPosts.limit >= 1
       /\ (res.getPaginatedPosts.page - 1) * res.getPaginatedPosts.limit >= 0
       /\ res.status = 200
       /\ res.body.pagination.totalPages \in Nat

\* the posts of a response body without their tags
Untagged(postsWithTags) ==
    [i \in 1..Len(postsWithTags) |->
        [k \in (DOMAIN postsWithTags[i]) \ {"tags"} |-> postsWithTags[i][k]]]

\* each post of a response body carries tags that getTagsByPostId may return
\* for its id
OwnTags(postsWithTags) ==
    \A i \in 1..Len(postsWithTags) :
       postsWithTags[i].tags \in DatabaseStorage_getTagsByPostId(db, postsWithTags[i].id)

\* C26: the posts of the GET /api/posts and GET /api/tags/:slug/posts
\* responses are the posts the repository returned, in the same order,
\* whatever order the getTagsByPostId calls complete in, and each post
\* carries the tags of the getTagsByPostId call made for its own id.
C26_PostsInRepositoryOrder ==
    /\ (res.op = "GET /api/posts" /\ res.status = 200) =>
          /\ \E result \in DatabaseStorage_getPaginatedPosts(
                              db, res.getPaginatedPosts.page, res.getPaginatedPosts.limit) :
                Untagged(res.body.posts) = result.posts
          /\ OwnTags(res.body.posts)
    /\ (res.op = "GET" /\ Len(res.args.path) = 4) =>
          /\ Untagged(res.body) \in DatabaseStorage_getPostsByTagSlug(db, res.args.path[3])
          /\ OwnTags(res.body)

\* C26 witness: two posts were listed, each with a tag the other lacks
C26_Witness ==
    /\ res.op = "GET /api/posts"
    /\ res.status = 200
    /\ Len(res.body.posts) = 2
    /\ Len(res.body.posts[1].tags) = 1
    /\ Len(res.body.posts[2].tags) = 1
    /\ res.body.posts[1].tags # res.body.posts[2].tags

\* the maps of MemStorage with the counters their ids come from
Kinds == {[map |-> "posts", counter |-> "currentPostId"],
          [map |-> "tags", counter |-> "currentTagId"],
          [map |-> "postTags", counter |-> "currentPostTagId"]}

\* post_tags rows of MemStorage that name a post that was deleted: its id
\* was handed out and the map does not hold it
NamesDeletedPost(this) ==
    {pt \in DOMAIN this.postTags :
        /\ this.postTags[pt].postId < this.currentPostId
        /\ this.postTags[pt].postId \notin DOMAIN this.posts}

\* C27: in MemStorage the ids handed out for a kind are the numbers below
\* its counter, the counter never goes down, and a create assigns an id that
\* is not below the counter: greater than every id assigned before, deleted
\* or not.  Hence a post_tags row that names a deleted post does not name any
\* post created later.
C27_IdsNeverReused ==
    /\ [](\A kind \in Kinds :
             \A id \in DOMAIN mem[kind.map] :
                mem[kind.map][id].id = id /\ id < mem[kind.counter])
    /\ [][/\ \A kind \in Kinds :
                /\ mem'[kind.counter] >= mem[kind.counter]
                /\ \A id \in (DOMAIN mem'[kind.map]) \ (DOMAIN mem[kind.map]) :
                      id >= mem[kind.counter]
          /\ \A pt \in NamesDeletedPost(mem) :
                mem.postTags[pt].postId \notin DOMAIN mem'.posts]_vars

\* C27 witness: a post was created after the post that a post_tags row names
\* was deleted
C27_Witness ==
    /\ res.op = "createPost"
    /\ CallsMem
    /\ \E pt \in NamesDeletedPost(mem) : mem.postTags[pt].postId < res.mem.row.id

\* the rows are rows of the table, none of them listed twice
ListedOnce(rows, table) ==
    \A i \in 1..Len(rows) :
       /\ rows[i].id \in DOMAIN table
       /\ table[rows[i].id] = rows[i]
       /\ Count(rows, rows[i].id) = 1

\* C28: getPostsByTagId never returns the same post twice, also when several
\* post_tags rows hold the same (postId, tagId) pair, and returns only posts
\* that are in the store, in both implementations.
C28_PostListedOnce ==
    res.op = "getPostsByTagId" =>
       /\ CallsMem => ListedOnce(res.mem.rows, mem.posts)
       /\ CallsDb => ListedOnce(res.db.rows, db.posts)

\* the ids of the tags with this slug
TagsWithSlug(this, slug) == {t \in DOMAIN this.tags : this.tags[t].slug = slug}

\* C29: getPostsByTagSlug with a slug that no tag has returns the empty
\* list, whatever posts the store holds, and GET /api/tags/:slug/posts then
\* answers 200 with an empty array, not 404; with a slug that a tag has, it
\* returns what getPostsByTagId returns for that tag's id.
C29_PostsByTagSlug ==
    /\ res.op = "getPostsByTagSlug" =>
          /\ CallsMem =>
                IF TagsWithSlug(mem, res.args.tagSlug) = {}
                THEN res.mem.rows = <<>>
                ELSE \E t \in TagsWithSlug(mem, res.args.tagSlug) :
                        res.mem.rows = MemStorage_getPostsByTagId(mem, t)
          /\ CallsDb =>
                IF TagsWithSlug(db, res.args.tagSlug) = {}
                THEN res.db.rows = <<>>
                ELSE \E t \in TagsWithSlug(db, res.args.tagSlug) :
                        res.db.rows \in DatabaseStorage_getPostsByTagId(db, t)
    /\ (res.op = "GET" /\ Len(res.args.path) = 4) =>
          /\ res.status = 200
          /\ TagsWithSlug(db, res.args.path[3]) = {} => res.body = <<>>
          /\ \A t \in TagsWithSlug(db, res.args.path[3]) :
                Untagged(res.body) \in DatabaseStorage_getPostsByTagId(db, t)

\* C29 witness: the posts of a slug that no tag has were requested from a
\* store with a tagged post, and the answer was 200 with an empty array
C29_Witness ==
    /\ res.op = "GET"
    /\ Len(res.args.path) = 4
    /\ TagsWithSlug(db, res.args.path[3]) = {}
    /\ \E pt \in DOMAIN db.postTags : db.postTags[pt].postId \in DOMAIN db.posts
    /\ res.status = 200
    /\ res.body = <<>>

\* the post_tags rows that hold the pair (postId, tagId)
Holding(this, postId, tagId) ==
    {i \in DOMAIN this.postTags :
        this.postTags[i].postId = postId /\ this.postTags[i].tagId = tagId}

\* removeTagFromPost(postId, tagId) took the store from before to after and
\* returned result: false and no change when no row held the pair; else true,
\* with at least one row holding the pair removed; in both cases no other row
\* removed, added or changed, and nothing but post_tags changed
Removed(before, after, result, postId, tagId) ==
    LET held == Holding(before, postId, tagId)
        removed == (DOMAIN before.postTags) \ (DOMAIN after.postTags)
    IN /\ after = [before EXCEPT !.postTags = after.postTags]
       /\ after.posts = before.posts
       /\ after.tags = before.tags
       /\ \A i \in DOMAIN after.postTags :
             i \in DOMAIN before.postTags /\ after.postTags[i] = before.postTags[i]
       /\ removed \subseteq held
       /\ IF held = {}
          THEN result = Bool(FALSE) /\ after = before
          ELSE result = Bool(TRUE) /\ removed # {}

=============================================================================
